---- MODULE Spec2Model ----
(***************************************************************************)
(* Model of the CONTAM-Next engine: the steady-state airflow solver        *)
(* (Solver.cpp) and the transient driver (TransientSimulation.cpp).        *)
(*                                                                         *)
(* Doubles are modelled as fixed-point integers:                           *)
(*   pressure      1 unit = 1 mPa        density    1 unit = 0.01 kg/m^3   *)
(*   temperature   1 unit = 1 K          elevation  1 unit = 1 m           *)
(*   flow coeff.   1 unit = 1e-3 m^3/(s Pa^n)                              *)
(*   mass flow     1 unit = 1e-8 kg/s    derivative 1 unit = 1e-8 kg/s/mPa *)
(*   time          1 unit = 1e-10 s                                        *)
(* Divisions round to the nearest unit.  Vectors are indexed from 1 where  *)
(* the source indexes from 0; equation indices likewise run from 1, with   *)
(* -1 for a node of known pressure.                                        *)
(***************************************************************************)
EXTENDS Integers, Sequences, FiniteSets, TLC

VARIABLES
    nodes,          \* Network::nodes_   : Seq of [type, pressure, temperature, elevation, density]
    links,          \* Network::links_   : Seq of [nodeFrom, nodeTo, elevation, elem, massFlow, derivative]
    method,         \* Solver::method_
    maxIterations,  \* Solver::maxIterations_
    spc,            \* position inside Solver::solve: "idle", "begin", "iter", "collect", "done"
    iter,           \* loop variable of the Newton loop
    trustRadius,    \* local trustRadius of Solver::solve
    result,         \* local SolverResult of Solver::solve
    entryPressures, \* history variable: node pressures when solve was entered
    iterPressures,  \* history variable: node pressures when the last executed iteration started
    lastIter,       \* history variable: what the last executed iteration did
    pc,             \* position inside TransientSimulation::run
    cfg,            \* TransientConfig and the emptiness of the driver's collections
    t,              \* local t of run
    currentDt,      \* local currentDt of run
    nextOutput,     \* local nextOutput of run
    airResult,      \* local airResult of run
    airResult2,     \* local airResult2 of run (density feedback)
    contResult,     \* local contResult of run
    contState,      \* ContaminantSolver: number of steps taken and the flows the last one used
    history,        \* result.history
    completed,      \* result.completed
    returned,       \* run has returned
    log,            \* history variable: operations finished in the current time step, in order
    stats,          \* history variable: counters of steps, callbacks, records
    dens,           \* density feedback on its own: nodes, concentrations, species
    controller,     \* a Controller and the readings it is updated with
    contam,         \* a ContaminantSolver with the network it steps on
    occupants,      \* an Occupant, its schedule and the zone concentrations it is exposed to
    integ,          \* an AdaptiveIntegrator::step call
    elements,       \* flow elements on their own: construction and calculate
    building,       \* a Network under construction (addNode, addLink, JsonReader)
    actuation       \* controllers, actuators and links of TransientSimulation::applyActuators

solverVars == <<method, maxIterations, spc, iter, trustRadius, result,
                entryPressures, iterPressures, lastIter>>
runVars == <<pc, cfg, t, currentDt, nextOutput, airResult, airResult2, contResult,
             contState, history, completed, returned, log, stats>>
unitVars == <<dens, controller, contam, occupants, integ, elements, building, actuation>>
vars == <<nodes, links, method, maxIterations, spc, iter, trustRadius, result,
          entryPressures, iterPressures, lastIter,
          pc, cfg, t, currentDt, nextOutput, airResult, airResult2, contResult,
          contState, history, completed, returned, log, stats,
          dens, controller, contam, occupants, integ, elements, building, actuation>>

----------------------------------------------------------------------------
(* Bounds of the model *)

\* largest iteration limit given to a stand-alone solver through setMaxIterations
MaxIterSet == 3
\* largest endTime - startTime of a transient run, in units of 1e-10 s
MaxEnd == 4
\* largest timeStep of a transient run
MaxDt == 3
\* largest outputInterval of a transient run
MaxInterval == 2

----------------------------------------------------------------------------
(* Constants.h, in the units of the model *)

GRAVITY == 98                 \* 9.80665 m/s^2: rho[0.01 kg/m^3] * g * z[m] in mPa
R_AIR == 287                  \* 287.055 J/(kg K)
P_ATM == 101325000            \* 101325 Pa
T_REF == 293                  \* 293.15 K
CONVERGENCE_TOL == 1000       \* 1e-5 kg/s
MAX_ITERATIONS == 100
DP_MIN == 1                   \* 0.001 Pa
TR_INITIAL_RADIUS == 1000000  \* 1000 Pa
TR_MIN_RADIUS == 10           \* 0.01 Pa
TR_MAX_RADIUS == 1000000000   \* 1e6 Pa
TimeEps == 1                  \* the 1e-10 s tolerance of the run loop

----------------------------------------------------------------------------
(* Arithmetic helpers standing for double arithmetic *)

Abs(x) == IF x < 0 THEN -x ELSE x
Sgn(x) == IF x < 0 THEN -1 ELSE 1
Min(a, b) == IF a < b THEN a ELSE b
Max(a, b) == IF a > b THEN a ELSE b

\* a / b rounded to the nearest unit, b # 0
RoundDiv(a, b) ==
    LET n == Abs(a)
        d == Abs(b)
        q == IF (n % d) >= d - (n % d) THEN (n \div d) + 1 ELSE n \div d
    IN  IF (a < 0) = (b < 0) THEN q ELSE -q

\* a * b / c rounded, for c # 0, without forming the product a * b
MulDiv(a, b, c) ==
    LET aa == IF c < 0 THEN -a ELSE a
        cc == Abs(c)
    IN  aa * (b \div cc) + RoundDiv(aa * (b % cc), cc)

RECURSIVE Pow(_, _)
\* std::pow(x, e) for the natural exponents the model uses
Pow(x, e) == IF e = 0 THEN 1 ELSE x * Pow(x, e - 1)

RECURSIVE SqrtSearch(_, _, _)
SqrtSearch(x, lo, hi) ==
    IF lo >= hi THEN lo
    ELSE LET mid == (lo + hi + 1) \div 2
         IN  IF mid * mid <= x THEN SqrtSearch(x, mid, hi)
             ELSE SqrtSearch(x, lo, mid - 1)

\* std::sqrt on a non-negative value, rounded down
Sqrt(x) == SqrtSearch(x, 0, Min(x, 46340))

RECURSIVE SumSeq(_)
SumSeq(s) == IF s = <<>> THEN 0 ELSE Head(s) + SumSeq(Tail(s))

RECURSIVE MaxSeq(_)
\* largest element of a sequence of non-negative values, 0 for the empty one
MaxSeq(s) == IF s = <<>> THEN 0 ELSE Max(Head(s), MaxSeq(Tail(s)))

----------------------------------------------------------------------------
(* Node.cpp *)

\* Node::updateDensity(absolutePressure): ideal gas law, skipped for T <= 0
updateDensityAbs(node, absolutePressure) ==
    IF node.temperature > 0
    THEN [node EXCEPT !.density = RoundDiv(absolutePressure, 10 * R_AIR * node.temperature)]
    ELSE node

\* Node::updateDensity()
updateDensity(node) == updateDensityAbs(node, P_ATM + node.pressure)

\* Node::Node followed by the setters a loader calls; density as the constructor left it
\* (computed at pressure 0 and temperature T_REF)
Node(type, pressure, temperature, elevation) ==
    [type |-> type, pressure |-> pressure, temperature |-> temperature,
     elevation |-> elevation, density |-> RoundDiv(P_ATM, 10 * R_AIR * T_REF)]

\* Node::isKnownPressure
isKnownPressure(node) == node.type = "Ambient"

----------------------------------------------------------------------------
(* Flow elements *)

NoElement == [kind |-> "None"]

\* PowerLawOrifice::PowerLawOrifice: linearSlope_ = C * DP_MIN^(n-1)
PowerLawOrifice(C, n) ==
    [kind |-> "PowerLawOrifice", C |-> C, n |-> n, linearSlope |-> C * Pow(DP_MIN, n - 1)]

\* PowerLawOrifice::calculate
calculate(elem, deltaP, density) ==
    LET absDp == Abs(deltaP)
        sign == IF deltaP >= 0 THEN 1 ELSE -1
    IN  IF absDp < DP_MIN
        THEN [massFlow |-> density * elem.linearSlope * deltaP,
              derivative |-> density * elem.linearSlope]
        ELSE [massFlow |-> density * (elem.C * Pow(absDp, elem.n)) * sign,
              derivative |-> density * elem.n * elem.C * Pow(absDp, elem.n - 1)]

\* Link::Link followed by setFlowElement
Link(nodeFrom, nodeTo, elevation, elem) ==
    [nodeFrom |-> nodeFrom, nodeTo |-> nodeTo, elevation |-> elevation,
     elem |-> elem, massFlow |-> 0, derivative |-> 0]

----------------------------------------------------------------------------
(* Network.cpp *)

\* Network::updateAllDensities
updateAllDensities(ns) == [i \in 1..Len(ns) |-> updateDensity(ns[i])]

\* Network::getUnknownCount
getUnknownCount(ns) == Cardinality({i \in 1..Len(ns) : ~isKnownPressure(ns[i])})

Pressures(ns) == [i \in 1..Len(ns) |-> ns[i].pressure]
MassFlows(ls) == [k \in 1..Len(ls) |-> ls[k].massFlow]

----------------------------------------------------------------------------
(* Solver.cpp *)

\* the unknownMap built at the start of Solver::solve
UnknownMap(ns) ==
    [i \in 1..Len(ns) |->
        IF isKnownPressure(ns[i]) THEN -1
        ELSE Cardinality({j \in 1..i : ~isKnownPressure(ns[j])})]

\* Solver::computeDeltaP
computeDeltaP(ns, link) ==
    LET nodeI == ns[link.nodeFrom]
        nodeJ == ns[link.nodeTo]
        Zk == link.elevation
        pEffI == nodeI.pressure - nodeI.density * GRAVITY * (Zk - nodeI.elevation)
        pEffJ == nodeJ.pressure - nodeJ.density * GRAVITY * (Zk - nodeJ.elevation)
    IN  pEffI - pEffJ

\* Solver::computeFlows
computeFlows(ns, ls) ==
    [k \in 1..Len(ls) |->
        IF ls[k].elem.kind = "None" THEN ls[k]
        ELSE LET deltaP == computeDeltaP(ns, ls[k])
                 avgDensity == RoundDiv(ns[ls[k].nodeFrom].density + ns[ls[k].nodeTo].density, 2)
                 r == calculate(ls[k].elem, deltaP, avgDensity)
             IN  [ls[k] EXCEPT !.massFlow = r.massFlow, !.derivative = r.derivative]]

\* a variant of assembleR that leaves out the flow leaving a node
assembleR_inflowOnly(ns, ls, unknownMap) ==
    [eq \in 1..getUnknownCount(ns) |->
        SumSeq([k \in 1..Len(ls) |->
            IF unknownMap[ls[k].nodeTo] = eq THEN ls[k].massFlow ELSE 0])]

\* the residual vector R of Solver::assembleSystem
assembleR(ns, ls, unknownMap) ==
    [eq \in 1..getUnknownCount(ns) |->
        SumSeq([k \in 1..Len(ls) |->
            (IF unknownMap[ls[k].nodeTo] = eq THEN ls[k].massFlow ELSE 0)
          - (IF unknownMap[ls[k].nodeFrom] = eq THEN ls[k].massFlow ELSE 0)])]

\* the Jacobian J of Solver::assembleSystem (triplets summed by setFromTriplets)
assembleJ(ns, ls, unknownMap) ==
    [r \in 1..getUnknownCount(ns) |-> [c \in 1..getUnknownCount(ns) |->
        SumSeq([k \in 1..Len(ls) |->
            LET eqI == unknownMap[ls[k].nodeFrom]
                eqJ == unknownMap[ls[k].nodeTo]
                d == ls[k].derivative
            IN  (IF eqI = r /\ c = r THEN -d ELSE 0)
              + (IF eqI = r /\ eqJ = c THEN d ELSE 0)
              + (IF eqJ = r /\ c = r THEN -d ELSE 0)
              + (IF eqJ = r /\ eqI = c THEN d ELSE 0)])]]

\* R.lpNorm<Eigen::Infinity>()
lpNormInf(R) == MaxSeq([eq \in 1..Len(R) |-> Abs(R[eq])])

\* dP.norm()
norm(dP) ==
    IF Len(dP) = 1 THEN Abs(dP[1])
    ELSE LET m == MaxSeq([eq \in 1..Len(dP) |-> Abs(dP[eq])])
             s == (m \div 16384) + 1
         IN  s * Sqrt(SumSeq([eq \in 1..Len(dP) |-> (Abs(dP[eq]) \div s) * (Abs(dP[eq]) \div s)]))

Det(J) == IF Len(J) = 1 THEN J[1][1] ELSE J[1][1] * J[2][2] - J[1][2] * J[2][1]

\* SparseLU::compute(J) reports a failure: a zero pivot, i.e. a singular matrix
luFails(J) == Det(J) = 0

\* SparseLU::solve(-R) for the one or two unknowns of the model's networks
luSolve(J, R) ==
    IF Len(J) = 1 THEN <<RoundDiv(-R[1], J[1][1])>>
    ELSE <<MulDiv(J[2][2], -R[1], Det(J)) - MulDiv(J[1][2], -R[2], Det(J)),
           MulDiv(J[1][1], -R[2], Det(J)) - MulDiv(J[2][1], -R[1], Det(J))>>

\* relaxFactor_ * dP(eq) with relaxFactor_ = RELAX_FACTOR_SUR = 0.75
Relaxed(d) == RoundDiv(3 * d, 4)

\* Solver::applyUpdateSUR
applyUpdateSUR(ns, dP, unknownMap) ==
    [i \in 1..Len(ns) |->
        IF unknownMap[i] >= 1
        THEN [ns[i] EXCEPT !.pressure = ns[i].pressure + Relaxed(dP[unknownMap[i]])]
        ELSE ns[i]]

\* scale * dP(eq) with scale = trustRadius / stepNorm < 1
Scaled(d, radius, stepNorm) ==
    IF Abs(d) = stepNorm THEN Sgn(d) * radius ELSE RoundDiv(d * radius, stepNorm)

\* a variant of applyUpdateTR that applies the step as computed, whatever its length
applyUpdateTR_unscaled(ns, dP, unknownMap, radius) ==
    LET stepNorm == norm(dP)
        clipped == stepNorm > radius
    IN  [nodes |-> [i \in 1..Len(ns) |->
                      IF unknownMap[i] >= 1
                      THEN [ns[i] EXCEPT !.pressure = ns[i].pressure + dP[unknownMap[i]]]
                      ELSE ns[i]],
         trustRadius |-> IF clipped THEN Max(radius \div 2, TR_MIN_RADIUS)
                         ELSE Min(radius * 2, TR_MAX_RADIUS)]

\* Solver::applyUpdateTR: the updated nodes and the new trust radius
applyUpdateTR(ns, dP, unknownMap, radius) ==
    LET stepNorm == norm(dP)
        clipped == stepNorm > radius
    IN  [nodes |-> [i \in 1..Len(ns) |->
                      IF unknownMap[i] >= 1
                      THEN [ns[i] EXCEPT !.pressure = ns[i].pressure +
                               (IF clipped THEN Scaled(dP[unknownMap[i]], radius, stepNorm)
                                ELSE dP[unknownMap[i]])]
                      ELSE ns[i]],
         trustRadius |-> IF clipped THEN Max(radius \div 2, TR_MIN_RADIUS)
                         ELSE Min(radius * 2, TR_MAX_RADIUS)]

\* SolverResult as default-constructed
EmptyResult == [converged |-> FALSE, iterations |-> 0, maxResidual |-> 0,
                pressures |-> <<>>, massFlows |-> <<>>]

NoIter == [ran |-> FALSE, residual |-> 0, converged |-> FALSE, luFailed |-> FALSE,
           updated |-> FALSE]

\* the frame of an iteration after applyUpdateTR returned u
Updated(frame, u) ==
    [frame EXCEPT !.nodes = u.nodes, !.trustRadius = u.trustRadius, !.updated = TRUE]

\* a variant of NewtonUpdate that, when the factorization fails, still moves the
\* pressures, by the residual itself
NewtonUpdate_fallbackStep(frame, J, R, um, meth) ==
    IF luFails(J) THEN [frame EXCEPT !.luFailed = TRUE,
                                     !.nodes = applyUpdateSUR(frame.nodes, R, um)]
    ELSE IF meth = "SubRelaxation"
         THEN [frame EXCEPT !.nodes = applyUpdateSUR(frame.nodes, luSolve(J, R), um),
                            !.updated = TRUE]
         ELSE Updated(frame, applyUpdateTR(frame.nodes, luSolve(J, R), um, frame.trustRadius))

\* Solver::solve, lines 188-208: the linear solve and the pressure update
NewtonUpdate(frame, J, R, um, meth) ==
    IF luFails(J) THEN [frame EXCEPT !.luFailed = TRUE]
    ELSE IF meth = "SubRelaxation"
         THEN [frame EXCEPT !.nodes = applyUpdateSUR(frame.nodes, luSolve(J, R), um),
                            !.updated = TRUE]
         ELSE Updated(frame, applyUpdateTR(frame.nodes, luSolve(J, R), um, frame.trustRadius))

\* a variant of NewtonCheck that tests convergence but goes on to update the pressures
NewtonCheck_updateAlways(ns1, ls1, um, J, R, meth, radius) ==
    NewtonUpdate([nodes |-> ns1, links |-> ls1, trustRadius |-> radius,
                  residual |-> lpNormInf(R), converged |-> lpNormInf(R) < CONVERGENCE_TOL,
                  luFailed |-> FALSE, updated |-> FALSE], J, R, um, meth)

\* Solver::solve, lines 179-186: the convergence test on the assembled residual
NewtonCheck(ns1, ls1, um, J, R, meth, radius) ==
    IF lpNormInf(R) < CONVERGENCE_TOL
    THEN [nodes |-> ns1, links |-> ls1, trustRadius |-> radius, residual |-> lpNormInf(R),
          converged |-> TRUE, luFailed |-> FALSE, updated |-> FALSE]
    ELSE NewtonUpdate([nodes |-> ns1, links |-> ls1, trustRadius |-> radius,
                       residual |-> lpNormInf(R), converged |-> FALSE, luFailed |-> FALSE,
                       updated |-> FALSE], J, R, um, meth)

\* Solver::solve, line 177: assembleSystem on the flows just computed
NewtonAssemble(ns1, ls1, um, meth, radius) ==
    NewtonCheck(ns1, ls1, um, assembleJ(ns1, ls1, um), assembleR(ns1, ls1, um), meth, radius)

\* Solver::solve, line 174: computeFlows on the densities just updated
NewtonFlows(ns1, ls, meth, radius) ==
    NewtonAssemble(ns1, computeFlows(ns1, ls), UnknownMap(ns1), meth, radius)

\* one pass of the Newton loop of Solver::solve, lines 170-208
NewtonIteration(ns, ls, meth, radius) ==
    NewtonFlows(updateAllDensities(ns), ls, meth, radius)

\* the loop state after a pass that returned the frame s
LoopAdvance(st, s) ==
    [nodes |-> s.nodes, links |-> s.links, trustRadius |-> s.trustRadius,
     iter |-> IF s.converged \/ s.luFailed THEN st.iter ELSE st.iter + 1,
     stopped |-> s.converged \/ s.luFailed,
     result |-> [st.result EXCEPT !.maxResidual = s.residual,
                                  !.iterations = st.iter + 1,
                                  !.converged = s.converged]]

\* the for loop of Solver::solve taken one pass further: st holds the network, the loop
\* variable, the trust radius, the result and whether the loop was left by a break
LoopPass(st, meth, maxIt) ==
    IF st.stopped \/ st.iter >= maxIt THEN st
    ELSE LoopAdvance(st, NewtonIteration(st.nodes, st.links, meth, st.trustRadius))

RECURSIVE LoopPasses(_, _, _, _)
\* k passes of the loop, split in halves to keep the evaluation shallow
LoopPasses(st, meth, maxIt, k) ==
    IF k <= 0 \/ st.stopped THEN st
    ELSE IF k = 1 THEN LoopPass(st, meth, maxIt)
    ELSE LoopPasses(LoopPasses(st, meth, maxIt, k \div 2), meth, maxIt, k - (k \div 2))

\* the whole for loop of Solver::solve
NewtonLoop(ns, ls, meth, maxIt) ==
    LoopPasses([nodes |-> ns, links |-> ls, trustRadius |-> TR_INITIAL_RADIUS, iter |-> 0,
                stopped |-> FALSE, result |-> EmptyResult], meth, maxIt, maxIt)

\* Solver::solve, lines 211-222: the final results collected from the network
Collected(f) ==
    [nodes |-> f.nodes, links |-> f.links,
     result |-> [f.result EXCEPT !.pressures = Pressures(f.nodes),
                                 !.massFlows = MassFlows(f.links)]]

\* Solver::solve as one call: the network it leaves and the result it returns
solve(ns, ls, meth, maxIt) ==
    IF getUnknownCount(ns) = 0
    THEN [nodes |-> ns, links |-> ls, result |-> [EmptyResult EXCEPT !.converged = TRUE]]
    ELSE Collected(NewtonLoop(updateAllDensities(ns), ls, meth, maxIt))

----------------------------------------------------------------------------
(* Solver::solve step by step *)

\* Solver::solve, lines 144-167: unknown map, early return for n = 0, initial densities
SolveBegin ==
    /\ spc = "begin"
    /\ result' = IF getUnknownCount(nodes) = 0
                 THEN [EmptyResult EXCEPT !.converged = TRUE]
                 ELSE EmptyResult
    /\ spc' = IF getUnknownCount(nodes) = 0 THEN "done" ELSE "iter"
    /\ nodes' = IF getUnknownCount(nodes) = 0 THEN nodes ELSE updateAllDensities(nodes)
    /\ iter' = 0
    /\ trustRadius' = TR_INITIAL_RADIUS
    /\ entryPressures' = Pressures(nodes)
    /\ iterPressures' = Pressures(nodes)
    /\ lastIter' = NoIter
    /\ UNCHANGED <<links, method, maxIterations>>
    /\ UNCHANGED runVars
    /\ UNCHANGED unitVars

\* the assignments of one pass that returned the frame s
IterateTo(s) ==
    /\ nodes' = s.nodes
    /\ links' = s.links
    /\ trustRadius' = s.trustRadius
    /\ result' = [result EXCEPT !.maxResidual = s.residual, !.iterations = iter + 1,
                                !.converged = s.converged]
    /\ iterPressures' = Pressures(nodes)
    /\ lastIter' = [ran |-> TRUE, residual |-> s.residual, converged |-> s.converged,
                    luFailed |-> s.luFailed, updated |-> s.updated]
    /\ spc' = IF s.converged \/ s.luFailed THEN "collect" ELSE "iter"
    /\ iter' = IF s.converged \/ s.luFailed THEN iter ELSE iter + 1

\* Solver::solve, lines 169-209: one pass of the Newton loop
SolveIterate ==
    /\ spc = "iter"
    /\ iter < maxIterations
    /\ IterateTo(NewtonIteration(nodes, links, method, trustRadius))
    /\ UNCHANGED <<method, maxIterations, entryPressures>>
    /\ UNCHANGED runVars
    /\ UNCHANGED unitVars

\* Solver::solve, lines 211-222: collect the final results and return
SolveCollect ==
    /\ \/ spc = "collect"
       \/ spc = "iter" /\ iter >= maxIterations
    /\ result' = [result EXCEPT !.pressures = Pressures(nodes),
                                !.massFlows = MassFlows(links)]
    /\ spc' = "done"
    /\ UNCHANGED <<nodes, links, method, maxIterations, iter, trustRadius,
                   entryPressures, iterPressures, lastIter>>
    /\ UNCHANGED runVars
    /\ UNCHANGED unitVars

----------------------------------------------------------------------------
(* Networks the model solves *)

\* a room pressure far from the solution: 5000 Pa
FarPressure == 5000 * 1000
\* a room pressure that three trust-region solves do not bring home: 7000 Pa
FarthestPressure == 7000 * 1000
\* a moderate initial room pressure: 40 Pa
NearPressure == 40 * 1000

\* two Ambient nodes joined by one orifice: no unknown pressure
AllAmbientNet(p) ==
    [nodes |-> <<Node("Ambient", 0, 273, 0), Node("Ambient", p, 273, 0)>>,
     links |-> <<Link(1, 2, 0, PowerLawOrifice(1, 1))>>]

\* one room between a low and a high crack to the cold outdoors (stack effect)
OneRoomNet(p) ==
    [nodes |-> <<Node("Ambient", 0, 273, 0), Node("Normal", p, 293, 0)>>,
     links |-> <<Link(1, 2, 0, PowerLawOrifice(1, 1)),
                 Link(2, 1, 3, PowerLawOrifice(1, 1))>>]

\* two rooms in a chain outdoors -> room 1 -> room 2 -> outdoors
TwoRoomNet(p) ==
    [nodes |-> <<Node("Ambient", 0, 273, 0), Node("Normal", p, 293, 0),
                 Node("Normal", 0, 293, 3)>>,
     links |-> <<Link(1, 2, 1, PowerLawOrifice(1, 1)),
                 Link(2, 3, 3, PowerLawOrifice(2, 1)),
                 Link(3, 1, 5, PowerLawOrifice(1, 1))>>]

\* two rooms joined to each other but not to the outdoors: a singular Jacobian
IsolatedPairNet(p) ==
    [nodes |-> <<Node("Ambient", 0, 273, 0), Node("Normal", p, 293, 0),
                 Node("Normal", 0, 293, 0)>>,
     links |-> <<Link(2, 3, 1, PowerLawOrifice(1, 1))>>]

SolverNetworks ==
    {AllAmbientNet(p) : p \in {0, NearPressure}}
    \cup {OneRoomNet(p) : p \in {0, NearPressure, -NearPressure, FarPressure}}
    \cup {TwoRoomNet(p) : p \in {0, NearPressure, -NearPressure}}
    \cup {IsolatedPairNet(p) : p \in {0, NearPressure}}

Methods == {"SubRelaxation", "TrustRegion"}

\* ContaminantSolver before any step: the version of the concentration matrix (the number
\* of steps that produced it), and for the last step the link flows it read and whether
\* the airflow result current at that time was a converged one
NoContaminantStep == [steps |-> 0, flows |-> <<>>, flowsConverged |-> FALSE]

NoStats == [steps |-> 0, callbacks |-> 0, records |-> 0, cancelled |-> FALSE,
            solvedLinks |-> <<>>, firstSolve |-> EmptyResult]

\* no component is exercised on its own
IdleUnits ==
    /\ dens = [pos |-> "idle"]
    /\ controller = [pos |-> "idle"]
    /\ contam = [pos |-> "idle"]
    /\ occupants = [pos |-> "idle"]
    /\ integ = [pos |-> "idle"]
    /\ elements = [pos |-> "idle"]
    /\ building = [pos |-> "idle"]
    /\ actuation = [pos |-> "idle"]

IdleRun ==
    /\ pc = "none"
    /\ cfg = [startTime |-> 0, endTime |-> 0, timeStep |-> 0, outputInterval |-> 0,
              species |-> "none", hasControllers |-> FALSE, hasOccupants |-> FALSE,
              hasProgressCb |-> FALSE]
    /\ t = 0
    /\ currentDt = 0
    /\ nextOutput = 0
    /\ airResult = EmptyResult
    /\ airResult2 = EmptyResult
    /\ contResult = [time |-> 0, concentrations |-> -1]
    /\ contState = NoContaminantStep
    /\ history = <<>>
    /\ completed = FALSE
    /\ returned = FALSE
    /\ log = <<>>
    /\ stats = NoStats

\* a Solver constructed with a method, configured through setMaxIterations, about to
\* solve a network
SolverInit ==
    /\ \E net \in SolverNetworks :
          /\ nodes = net.nodes
          /\ links = net.links
    /\ method \in Methods
    /\ maxIterations \in (0..MaxIterSet) \cup {MAX_ITERATIONS}
    /\ spc = "begin"
    /\ iter = 0
    /\ trustRadius = 0
    /\ result = EmptyResult
    /\ entryPressures = <<>>
    /\ iterPressures = <<>>
    /\ lastIter = NoIter
    /\ IdleRun
    /\ IdleUnits

SolverNext == SolveBegin \/ SolveIterate \/ SolveCollect

\* a stand-alone Solver::solve call; the code runs on once called
SolverSpec == SolverInit /\ [][SolverNext]_vars /\ WF_vars(SolverNext)

----------------------------------------------------------------------------
(* TransientSimulation.cpp *)

hasContaminants == cfg.species # "none"

\* a variant of hasNonTraceSpecies that answers for trace species too
hasNonTraceSpecies_anySpecies == cfg.species # "none"

\* TransientSimulation::hasNonTraceSpecies
hasNonTraceSpecies == cfg.species = "nonTrace"

\* TransientSimulation::updateDensitiesFromConcentrations: the mixture density newDensity
\* is computed and dropped; each unknown node gets updateDensity(P_abs)
updateDensitiesFromConcentrations(ns) ==
    [i \in 1..Len(ns) |->
        IF isKnownPressure(ns[i]) THEN ns[i]
        ELSE updateDensityAbs(ns[i], P_ATM + ns[i].pressure)]

\* the condition of the run loop, line 43
LoopCondition == t < cfg.endTime - TimeEps

\* a variant of RecordCondition that forgets the end of the run
RecordCondition_intervalOnly == t >= nextOutput - TimeEps

\* the condition under which a step records a snapshot, line 83
RecordCondition == t >= nextOutput - TimeEps \/ t >= cfg.endTime - TimeEps

\* a variant of clampedDt that always takes the full time step
clampedDt_fullStep == cfg.timeStep

\* run, line 45: the length of the next step
clampedDt == Min(cfg.timeStep, cfg.endTime - t)

\* airResult = airflowSolver.solve(network), where the call returned r
SolvedTo(r) ==
    /\ nodes' = r.nodes
    /\ links' = r.links
    /\ airResult' = r.result

\* airResult2 = airflowSolver.solve(network); if (airResult2.converged) airResult = airResult2
ResolvedTo(r) ==
    /\ nodes' = r.nodes
    /\ links' = r.links
    /\ airResult2' = r.result
    /\ airResult' = IF r.result.converged THEN r.result ELSE airResult

\* run, lines 8-31: set up the solvers and the clock, solve the airflow once
InitialSolve ==
    /\ pc = "start"
    /\ SolvedTo(solve(nodes, links, method, MAX_ITERATIONS))
    /\ completed' = FALSE
    /\ t' = cfg.startTime
    /\ nextOutput' = cfg.startTime
    /\ pc' = "initial"
    /\ UNCHANGED <<cfg, currentDt, airResult2, contResult, contState, history, returned,
                   log, stats>>
    /\ UNCHANGED solverVars
    /\ UNCHANGED unitVars

\* run, lines 33-40: record the initial state
RecordInitial ==
    /\ pc = "initial"
    /\ history' = Append(history,
                         [time |-> t, airflow |-> airResult,
                          contaminant |-> [time |-> t,
                                           concentrations |-> IF hasContaminants
                                                              THEN contState.steps ELSE -1]])
    /\ nextOutput' = nextOutput + cfg.outputInterval
    /\ stats' = [stats EXCEPT !.records = @ + 1]
    /\ pc' = "loop"
    /\ UNCHANGED <<nodes, links, cfg, t, currentDt, airResult, airResult2, contResult,
                   contState, completed, returned, log>>
    /\ UNCHANGED solverVars
    /\ UNCHANGED unitVars

\* run, lines 43-45: enter the next time step
LoopEnter ==
    /\ pc = "loop"
    /\ LoopCondition
    /\ currentDt' = clampedDt
    /\ log' = <<>>
    /\ stats' = [stats EXCEPT !.steps = @ + 1]
    /\ pc' = IF cfg.hasControllers THEN "sensors" ELSE "airflow"
    /\ UNCHANGED <<nodes, links, cfg, t, nextOutput, airResult, airResult2, contResult,
                   contState, history, completed, returned>>
    /\ UNCHANGED solverVars
    /\ UNCHANGED unitVars

\* run, lines 96-97: the loop is over
LoopExit ==
    /\ pc = "loop"
    /\ ~LoopCondition
    /\ completed' = TRUE
    /\ returned' = TRUE
    /\ pc' = "returned"
    /\ UNCHANGED <<nodes, links, cfg, t, currentDt, nextOutput, airResult, airResult2,
                   contResult, contState, history, log, stats>>
    /\ UNCHANGED solverVars
    /\ UNCHANGED unitVars

\* run, line 49: updateSensors
UpdateSensors ==
    /\ pc = "sensors"
    /\ log' = Append(log, "sensors")
    /\ pc' = "controllers"
    /\ UNCHANGED <<nodes, links, cfg, t, currentDt, nextOutput, airResult, airResult2,
                   contResult, contState, history, completed, returned, stats>>
    /\ UNCHANGED solverVars
    /\ UNCHANGED unitVars

\* run, line 50: updateControllers
UpdateControllers ==
    /\ pc = "controllers"
    /\ log' = Append(log, "controllers")
    /\ pc' = "actuators"
    /\ UNCHANGED <<nodes, links, cfg, t, currentDt, nextOutput, airResult, airResult2,
                   contResult, contState, history, completed, returned, stats>>
    /\ UNCHANGED solverVars
    /\ UNCHANGED unitVars

\* run, line 51: applyActuators
ApplyActuators ==
    /\ pc = "actuators"
    /\ log' = Append(log, "actuators")
    /\ pc' = "airflow"
    /\ UNCHANGED <<nodes, links, cfg, t, currentDt, nextOutput, airResult, airResult2,
                   contResult, contState, history, completed, returned, stats>>
    /\ UNCHANGED solverVars
    /\ UNCHANGED unitVars

\* run, lines 55-62: solve the airflow; a non-converged result is kept and the step goes on
AirflowSolve ==
    /\ pc = "airflow"
    /\ SolvedTo(solve(nodes, links, method, MAX_ITERATIONS))
    /\ stats' = [stats EXCEPT !.solvedLinks = MassFlows(links'), !.firstSolve = airResult']
    /\ contResult' = [time |-> t + currentDt, concentrations |-> -1]
    /\ log' = Append(log, "airflow")
    /\ pc' = IF hasContaminants THEN "contaminant" ELSE "advance"
    /\ UNCHANGED <<cfg, t, currentDt, nextOutput, airResult2, contState, history,
                   completed, returned>>
    /\ UNCHANGED solverVars
    /\ UNCHANGED unitVars

\* a variant of ContaminantStep that reads the flows of the airflow result, not the links'
ContaminantStep_resultFlows ==
    /\ pc = "contaminant"
    /\ contState' = [steps |-> contState.steps + 1, flows |-> airResult.massFlows,
                     flowsConverged |-> airResult.converged]
    /\ contResult' = [time |-> t + currentDt, concentrations |-> contState.steps + 1]
    /\ log' = Append(log, "contaminant")
    /\ pc' = IF hasNonTraceSpecies THEN "density" ELSE "advance"
    /\ UNCHANGED <<nodes, links, cfg, t, currentDt, nextOutput, airResult, airResult2,
                   history, completed, returned, stats>>
    /\ UNCHANGED solverVars
    /\ UNCHANGED unitVars

\* run, line 64: contSolver.step on the link flows the network holds
ContaminantStep ==
    /\ pc = "contaminant"
    /\ contState' = [steps |-> contState.steps + 1, flows |-> MassFlows(links),
                     flowsConverged |-> airResult.converged]
    /\ contResult' = [time |-> t + currentDt, concentrations |-> contState.steps + 1]
    /\ log' = Append(log, "contaminant")
    /\ pc' = IF hasNonTraceSpecies THEN "density" ELSE "advance"
    /\ UNCHANGED <<nodes, links, cfg, t, currentDt, nextOutput, airResult, airResult2,
                   history, completed, returned, stats>>
    /\ UNCHANGED solverVars
    /\ UNCHANGED unitVars

\* run, lines 68-72: density feedback, second airflow solve, kept only if it converged
DensityFeedback ==
    /\ pc = "density"
    /\ ResolvedTo(solve(updateDensitiesFromConcentrations(nodes), links, method,
                        MAX_ITERATIONS))
    /\ log' = Append(log, "resolve")
    /\ pc' = "advance"
    /\ UNCHANGED <<cfg, t, currentDt, nextOutput, contResult, contState, history,
                   completed, returned, stats>>
    /\ UNCHANGED solverVars
    /\ UNCHANGED unitVars

\* run, line 75: t += currentDt
AdvanceTime ==
    /\ pc = "advance"
    /\ t' = t + currentDt
    /\ pc' = IF cfg.hasOccupants /\ hasContaminants THEN "exposure" ELSE "record"
    /\ UNCHANGED <<nodes, links, cfg, currentDt, nextOutput, airResult, airResult2,
                   contResult, contState, history, completed, returned, log, stats>>
    /\ UNCHANGED solverVars
    /\ UNCHANGED unitVars

\* run, line 79: updateOccupantExposure
UpdateOccupantExposure ==
    /\ pc = "exposure"
    /\ log' = Append(log, "exposure")
    /\ pc' = "record"
    /\ UNCHANGED <<nodes, links, cfg, t, currentDt, nextOutput, airResult, airResult2,
                   contResult, contState, history, completed, returned, stats>>
    /\ UNCHANGED solverVars
    /\ UNCHANGED unitVars

\* run, lines 83-86: record at output intervals
RecordSnapshot ==
    /\ pc = "record"
    /\ IF RecordCondition
       THEN /\ history' = Append(history, [time |-> t, airflow |-> airResult,
                                           contaminant |-> contResult])
            /\ nextOutput' = nextOutput + cfg.outputInterval
            /\ stats' = [stats EXCEPT !.records = @ + 1]
       ELSE UNCHANGED <<history, nextOutput, stats>>
    /\ log' = Append(log, "snapshot")
    /\ pc' = IF cfg.hasProgressCb THEN "callback" ELSE "loop"
    /\ UNCHANGED <<nodes, links, cfg, t, currentDt, airResult, airResult2, contResult,
                   contState, completed, returned>>
    /\ UNCHANGED solverVars
    /\ UNCHANGED unitVars

\* a variant of ProgressCallback that ignores the answer and goes on
ProgressCallback_ignored ==
    /\ pc = "callback"
    /\ \E go \in BOOLEAN :
          stats' = [stats EXCEPT !.callbacks = @ + 1, !.cancelled = ~go]
    /\ returned' = FALSE
    /\ pc' = "loop"
    /\ log' = Append(log, "callback")
    /\ UNCHANGED <<nodes, links, cfg, t, currentDt, nextOutput, airResult, airResult2,
                   contResult, contState, history, completed>>
    /\ UNCHANGED solverVars
    /\ UNCHANGED unitVars

\* run, lines 89-93: the progress callback answers go on (TRUE) or cancel (FALSE)
ProgressCallback ==
    /\ pc = "callback"
    /\ \E go \in BOOLEAN :
          /\ stats' = [stats EXCEPT !.callbacks = @ + 1, !.cancelled = ~go]
          /\ returned' = ~go
          /\ pc' = IF go THEN "loop" ELSE "returned"
    /\ log' = Append(log, "callback")
    /\ UNCHANGED <<nodes, links, cfg, t, currentDt, nextOutput, airResult, airResult2,
                   contResult, contState, history, completed>>
    /\ UNCHANGED solverVars
    /\ UNCHANGED unitVars

\* networks a transient run is started on
RunNetworks == {AllAmbientNet(0), OneRoomNet(0), OneRoomNet(FarthestPressure)}

StartTimes == {0}

\* a TransientSimulation configured through its setters, about to run on one of nets
InitOn(nets) ==
    /\ \E net \in nets :
          /\ nodes = net.nodes
          /\ links = net.links
    /\ method \in Methods
    /\ maxIterations = MAX_ITERATIONS
    /\ spc = "idle"
    /\ iter = 0
    /\ trustRadius = 0
    /\ result = EmptyResult
    /\ entryPressures = <<>>
    /\ iterPressures = <<>>
    /\ lastIter = NoIter
    /\ pc = "start"
    /\ \E st \in StartTimes, len \in 1..MaxEnd, dt \in 1..MaxDt, oi \in 0..MaxInterval,
          sp \in {"none", "trace", "nonTrace"}, hc \in BOOLEAN, ho \in BOOLEAN,
          cb \in BOOLEAN :
          cfg = [startTime |-> st, endTime |-> st + len, timeStep |-> dt,
                 outputInterval |-> oi, species |-> sp, hasControllers |-> hc,
                 hasOccupants |-> ho, hasProgressCb |-> cb]
    /\ t = 0
    /\ currentDt = 0
    /\ nextOutput = 0
    /\ airResult = EmptyResult
    /\ airResult2 = EmptyResult
    /\ contResult = [time |-> 0, concentrations |-> -1]
    /\ contState = NoContaminantStep
    /\ history = <<>>
    /\ completed = FALSE
    /\ returned = FALSE
    /\ log = <<>>
    /\ stats = NoStats
    /\ IdleUnits

Next ==
    \/ InitialSolve
    \/ RecordInitial
    \/ LoopEnter
    \/ LoopExit
    \/ UpdateSensors
    \/ UpdateControllers
    \/ ApplyActuators
    \/ AirflowSolve
    \/ ContaminantStep
    \/ DensityFeedback
    \/ AdvanceTime
    \/ UpdateOccupantExposure
    \/ RecordSnapshot
    \/ ProgressCallback

Init == InitOn(RunNetworks)

\* one call of TransientSimulation::run on a single thread that keeps running
Spec == Init /\ [][Next]_vars /\ WF_vars(Next)

\* a network whose solves return at once, for the properties of the clock of run
ClockNetworks == {AllAmbientNet(0)}

ClockInit == InitOn(ClockNetworks)

\* a run that keeps running, started on a network without unknown pressures
ClockSpec == ClockInit /\ [][Next]_vars /\ WF_vars(Next)

----------------------------------------------------------------------------
(* Helpers of the properties *)

IsPrefix(a, b) == Len(a) <= Len(b) /\ \A i \in 1..Len(a) : a[i] = b[i]

Range(q) == {q[i] : i \in 1..Len(q)}

\* the operations of one time step in the order C1 lists them, for the driver's collections
ExpectedOrder ==
    (IF cfg.hasControllers THEN <<"sensors", "controllers", "actuators">> ELSE <<>>)
    \o <<"airflow">>
    \o (IF cfg.species # "none" THEN <<"contaminant">> ELSE <<>>)
    \o (IF cfg.species = "nonTrace" THEN <<"resolve">> ELSE <<>>)
    \o (IF cfg.hasOccupants /\ cfg.species # "none" THEN <<"exposure">> ELSE <<>>)
    \o <<"snapshot">>
    \o (IF cfg.hasProgressCb THEN <<"callback">> ELSE <<>>)

StepFinished == pc \in {"loop", "returned"} /\ stats.steps > 0

\* reported mass flow entering node i minus reported mass flow leaving it
NetInflow(i, flows) ==
    SumSeq([k \in 1..Len(links) |->
        (IF links[k].nodeTo = i THEN flows[k] ELSE 0)
      - (IF links[k].nodeFrom = i THEN flows[k] ELSE 0)])

NonAmbient == {i \in 1..Len(nodes) : nodes[i].type # "Ambient"}

----------------------------------------------------------------------------
(* C1 *)

\* C1: in every time step the operations happen in the order sensor refresh, controller
\* update, actuator write (with controllers), airflow solve, contaminant step (with
\* species), density-feedback re-solve (with a non-trace species), occupant exposure,
\* snapshot recording, progress callback: what has finished so far is always a prefix of
\* that order, and a finished step has done all of it.
C1_StepOrder ==
    /\ IsPrefix(log, ExpectedOrder)
    /\ StepFinished => log = ExpectedOrder

C1_Witness ==
    /\ pc = "loop"
    /\ stats.steps = 2
    /\ log = <<"sensors", "controllers", "actuators", "airflow", "contaminant", "resolve",
               "exposure", "snapshot", "callback">>

----------------------------------------------------------------------------
(* C2 *)

\* C2: when solve returns converged, the reported mass flows entering each non-Ambient node
\* minus those leaving it are below the convergence tolerance in absolute value, and
\* maxResidual is the largest of these absolute values.
C2_MassConservation ==
    (spc = "done" /\ result.converged) =>
        /\ \A i \in NonAmbient : Abs(NetInflow(i, result.massFlows)) < CONVERGENCE_TOL
        /\ \A i \in NonAmbient : Abs(NetInflow(i, result.massFlows)) <= result.maxResidual
        /\ \/ \E i \in NonAmbient : Abs(NetInflow(i, result.massFlows)) = result.maxResidual
           \/ NonAmbient = {} /\ result.maxResidual = 0

C2_Witness ==
    /\ spc = "done"
    /\ result.converged
    /\ Cardinality(NonAmbient) = 2
    /\ result.iterations >= 2
    /\ result.maxResidual > 0
    /\ \A k \in 1..Len(links) : result.massFlows[k] > CONVERGENCE_TOL

----------------------------------------------------------------------------
(* C3 *)

----------------------------------------------------------------------------
(* C4 *)

\* C4: the progress callback is invoked exactly once per executed time step, after that
\* step's snapshot decision and never before the initial record; once it returns false,
\* run has returned with completed = false, nothing more happens, and the history holds
\* every record made.
C4_Callback ==
    /\ [](/\ stats.callbacks = (IF ~cfg.hasProgressCb THEN 0
                                ELSE IF pc \in {"loop", "returned"} THEN stats.steps
                                ELSE IF stats.steps = 0 THEN 0 ELSE stats.steps - 1)
          /\ pc = "callback" => (log # <<>> /\ log[Len(log)] = "snapshot" /\ Len(history) >= 1)
          /\ stats.callbacks > 0 => (Len(history) >= 1 /\ history[1].time = cfg.startTime)
          /\ Len(history) = stats.records
          /\ stats.cancelled => (returned /\ ~completed /\ pc = "returned"))
    /\ [][stats.cancelled => UNCHANGED vars]_vars
    /\ [][(stats'.callbacks # stats.callbacks) =>
             (pc = "callback" /\ stats'.callbacks = stats.callbacks + 1
              /\ (stats'.cancelled <=> returned'))]_vars

C4_Witness ==
    /\ stats.cancelled
    /\ returned
    /\ stats.steps = 2
    /\ stats.callbacks = 2
    /\ Len(history) = 3

----------------------------------------------------------------------------
(* C5 *)

\* C5 as stated: the contaminant step runs only on link flows of a converged airflow solve.
C5_ContaminantOnConverged ==
    "contaminant" \in Range(log) => contState.flowsConverged

\* C5 amended: the contaminant step of a time step runs only after the airflow solve of that
\* step has returned, converged or not, and advances concentrations on the link flows that
\* solve left in the network.
C5_ContaminantAfterAirflow ==
    "contaminant" \in Range(log) =>
        /\ \E i, j \in 1..Len(log) : i < j /\ log[i] = "airflow" /\ log[j] = "contaminant"
        /\ contState.flows = stats.solvedLinks
        /\ contState.flowsConverged = stats.firstSolve.converged

\* a contaminant step taken on the flows of a solve that did not converge
C5_Witness ==
    /\ "contaminant" \in Range(log)
    /\ ~contState.flowsConverged
    /\ stats.firstSolve.iterations = MAX_ITERATIONS
    /\ contState.flows = stats.firstSolve.massFlows

----------------------------------------------------------------------------
(* C6 *)

----------------------------------------------------------------------------
(* C7 *)

\* C7: solve never changes the pressure of an Ambient node, and result.pressures reports
\* each Ambient node's pressure as it was before the call.
C7_AmbientReported ==
    spc = "done" =>
        \A i \in 1..Len(nodes) :
            nodes[i].type = "Ambient" =>
                /\ nodes[i].pressure = entryPressures[i]
                /\ i \in DOMAIN result.pressures
                /\ result.pressures[i] = entryPressures[i]

----------------------------------------------------------------------------
(* C8 *)

\* C8: for every network, also one without a non-Ambient node, solve returns one pressure
\* per node and one mass flow per link.
C8_ResultSizes ==
    spc = "done" =>
        /\ Len(result.pressures) = Len(nodes)
        /\ Len(result.massFlows) = Len(links)

----------------------------------------------------------------------------
(* C9 *)

\* C9: solve runs at most maxIterations Newton iterations (every pass of the loop counts
\* one iteration below maxIterations), iterations <= maxIterations, and converged is true only if the residual norm of the last executed
\* iteration (maxResidual) was below the tolerance, and then that iteration applied no
\* pressure update.
C9_BoundedIterations ==
    /\ [](/\ iter <= maxIterations
          /\ result.iterations <= maxIterations
          /\ (spc \in {"collect", "done"} /\ result.converged) =>
                /\ result.maxResidual < CONVERGENCE_TOL
                /\ result.maxResidual = lastIter.residual
                /\ ~lastIter.updated
                /\ Pressures(nodes) = iterPressures
                /\ lastIter.ran => lastIter.converged)
    /\ [][(spc = "iter" /\ spc' # "done") =>
            (result.iterations < maxIterations /\ result'.iterations = result.iterations + 1)]_vars
    /\ [][result'.iterations # result.iterations => spc = "iter"]_vars

C9_Witness ==
    /\ spc = "done"
    /\ result.converged
    /\ result.iterations = maxIterations
    /\ result.iterations = 3
    /\ Pressures(nodes) # entryPressures

----------------------------------------------------------------------------
(* C10 *)

\* C10: when the second airflow solve of a step with a non-trace species does not converge,
\* the step's airflow result and the network pressures and link mass flows carried into
\* the next step are those of the first solve.
C10_FirstSolveKept ==
    ("resolve" \in Range(log) /\ ~airResult2.converged) =>
        /\ airResult = stats.firstSolve
        /\ Pressures(nodes) = stats.firstSolve.pressures
        /\ MassFlows(links) = stats.firstSolve.massFlows

----------------------------------------------------------------------------
(* Components exercised on their own *)

\* no airflow solve and no transient run is in progress
IdleAirflow ==
    /\ nodes = <<>>
    /\ links = <<>>
    /\ method = "SubRelaxation"
    /\ maxIterations = MAX_ITERATIONS
    /\ spc = "idle"
    /\ iter = 0
    /\ trustRadius = 0
    /\ result = EmptyResult
    /\ entryPressures = <<>>
    /\ iterPressures = <<>>
    /\ lastIter = NoIter
    /\ IdleRun

AirflowUnchanged ==
    /\ UNCHANGED <<nodes, links>>
    /\ UNCHANGED solverVars
    /\ UNCHANGED runVars

----------------------------------------------------------------------------
(* TransientSimulation::updateDensitiesFromConcentrations on its own            *)
(* concentrations: 1 unit = 0.01 kg/m^3; molar masses: 1 unit = 1 g/mol          *)

\* M_air, line 186
M_AIR == 29

\* rho_base when the node's density is not positive, line 195: 1.2 kg/m^3
RHO_FALLBACK == 120

\* a species as the density feedback reads it
Species(molarMass, isTrace) == [molarMass |-> molarMass, isTrace |-> isTrace]

\* lines 193-207: sumCorrection in thousandths, over the non-trace species with M_k > 0
sumCorrection(node, row, species) ==
    SumSeq([k \in 1..Len(species) |->
        IF species[k].isTrace \/ k > Len(row) \/ species[k].molarMass <= 0 THEN 0
        ELSE RoundDiv(1000 * row[k] * (M_AIR - species[k].molarMass),
                      (IF node.density <= 0 THEN RHO_FALLBACK ELSE node.density)
                        * species[k].molarMass)])

\* lines 209-213: the local newDensity = P_abs / (R_mix * T)
newDensity(node, row, species) ==
    RoundDiv(P_ATM + node.pressure,
             RoundDiv(R_AIR * node.temperature * (1000 + sumCorrection(node, row, species)),
                      100))

\* the pure-air density P_abs / (R_air * T)
pureAirDensity(node) == RoundDiv(P_ATM + node.pressure, 10 * R_AIR * node.temperature)

\* room temperatures and concentrations the feedback is tried on
FeedbackTemperatures == {293, 303}
FeedbackConcentrations == {0, 6, 12}
MolarMasses == {29, 44, 2}

DensityInit ==
    /\ IdleAirflow
    /\ \E p \in {0, NearPressure}, T \in FeedbackTemperatures,
          c1 \in FeedbackConcentrations, c2 \in FeedbackConcentrations,
          m1 \in MolarMasses, m2 \in MolarMasses, t1 \in BOOLEAN, t2 \in BOOLEAN :
          dens = [pos |-> "feedback",
                  nodes |-> <<Node("Ambient", 0, 273, 0), Node("Normal", p, T, 0)>>,
                  conc |-> <<<<0, 0>>, <<c1, c2>>>>,
                  species |-> <<Species(m1, t1), Species(m2, t2)>>,
                  computed |-> <<>>]
    /\ controller = [pos |-> "idle"]
    /\ contam = [pos |-> "idle"]
    /\ occupants = [pos |-> "idle"]
    /\ integ = [pos |-> "idle"]
    /\ elements = [pos |-> "idle"]
    /\ building = [pos |-> "idle"]
    /\ actuation = [pos |-> "idle"]

\* run, line 69: updateDensitiesFromConcentrations(network, contSolver); computed keeps
\* the value of the local newDensity of each unknown node
FeedbackUpdate ==
    /\ dens.pos = "feedback"
    /\ dens' = [dens EXCEPT
                  !.pos = "resolve",
                  !.nodes = updateDensitiesFromConcentrations(dens.nodes),
                  !.computed = [i \in 1..Len(dens.nodes) |->
                                  IF isKnownPressure(dens.nodes[i]) THEN dens.nodes[i].density
                                  ELSE newDensity(dens.nodes[i], dens.conc[i], dens.species)]]
    /\ AirflowUnchanged
    /\ UNCHANGED <<controller, contam, occupants, integ, elements, building, actuation>>

\* run, line 70 and Solver::solve, lines 163 and 171: the re-solve recomputes every density
FeedbackResolve ==
    /\ dens.pos = "resolve"
    /\ dens' = [dens EXCEPT !.pos = "solving", !.nodes = updateAllDensities(dens.nodes)]
    /\ AirflowUnchanged
    /\ UNCHANGED <<controller, contam, occupants, integ, elements, building, actuation>>

DensityNext == FeedbackUpdate \/ FeedbackResolve

DensitySpec == DensityInit /\ [][DensityNext]_vars /\ WF_vars(DensityNext)

\* C11: in the density feedback the density of each non-Ambient node used by the airflow
\* re-solve is P_abs / (R_mix * T), the mixture density computed from the concentrations
\* of the non-trace species.
C11_MixtureDensityUsed ==
    dens.pos \in {"resolve", "solving"} =>
        \A i \in 1..Len(dens.nodes) :
            ~isKnownPressure(dens.nodes[i]) => dens.nodes[i].density = dens.computed[i]

----------------------------------------------------------------------------
(* Controller.h                                                                  *)
(* readings, setpoint, errors, deadband: 1 unit = 0.1; gains: 1 unit = 0.1;      *)
(* output and its limits: 1 unit = 0.01, so gain * error is exact                *)

\* the number of update and reset calls a controller is followed through
MaxUpdates == 3

\* std::clamp(v, lo, hi) for lo <= hi
clamp(v, lo, hi) == IF v < lo THEN lo ELSE IF hi < v THEN hi ELSE v

\* Controller::Controller followed by assignments to the public limits and state
Controller(setpoint, Kp, Ki, deadband, outputMin, outputMax, output) ==
    [setpoint |-> setpoint, Kp |-> Kp, Ki |-> Ki, deadband |-> deadband,
     outputMin |-> outputMin, outputMax |-> outputMax, output |-> output, prevError |-> 0]

\* a variant of deadbandError without the deadband
deadbandError_none(c, sensorValue) == c.setpoint - sensorValue

\* the error after the deadband, lines 53-58
deadbandError(c, sensorValue) ==
    IF Abs(c.setpoint - sensorValue) < c.deadband THEN 0 ELSE c.setpoint - sensorValue

\* a variant of Controller_update that scales the integral term by dt
Controller_update_dtScaled(c, sensorValue, dt) ==
    [c EXCEPT !.output = clamp(c.output
                                 + c.Kp * (deadbandError(c, sensorValue) - c.prevError)
                                 + c.Ki * dt * (deadbandError(c, sensorValue) + c.prevError),
                               c.outputMin, c.outputMax),
              !.prevError = deadbandError(c, sensorValue)]

\* Controller::update(sensorValue, dt)
Controller_update(c, sensorValue, dt) ==
    [c EXCEPT !.output = clamp(c.output
                                 + c.Kp * (deadbandError(c, sensorValue) - c.prevError)
                                 + c.Ki * (deadbandError(c, sensorValue) + c.prevError),
                               c.outputMin, c.outputMax),
              !.prevError = deadbandError(c, sensorValue)]

\* Controller::reset
Controller_reset(c) == [c EXCEPT !.output = 0, !.prevError = 0]

\* sensor readings and time steps the controller is updated with
Readings == {60, 80, 98, 100, 103, 140}
UpdateSteps == {1, 2}

\* pairs of output limits, outputMin <= outputMax
OutputLimits == {<<0, 100>>, <<20, 80>>, <<-50, 50>>}

ControllerInit ==
    /\ IdleAirflow
    /\ \E Kp \in {0, 5, 10}, Ki \in {0, 1, 5}, db \in {0, 5}, lim \in OutputLimits :
          controller = [pos |-> "ready", calls |-> 0,
                        c |-> Controller(100, Kp, Ki, db, lim[1], lim[2], 0),
                        before |-> Controller(100, Kp, Ki, db, lim[1], lim[2], 0),
                        reading |-> 0, dt |-> 0, op |-> "none"]
    /\ dens = [pos |-> "idle"]
    /\ contam = [pos |-> "idle"]
    /\ occupants = [pos |-> "idle"]
    /\ integ = [pos |-> "idle"]
    /\ elements = [pos |-> "idle"]
    /\ building = [pos |-> "idle"]
    /\ actuation = [pos |-> "idle"]

\* TransientSimulation::updateControllers: ctrl.update(sensor.lastReading, dt); before,
\* reading and dt keep the state and the arguments of the call
ControllerUpdate ==
    /\ controller.pos = "ready"
    /\ controller.calls < MaxUpdates
    /\ \E y \in Readings, dt \in UpdateSteps :
          controller' = [controller EXCEPT !.c = Controller_update(controller.c, y, dt),
                                           !.before = controller.c,
                                           !.reading = y, !.dt = dt, !.op = "update",
                                           !.calls = @ + 1]
    /\ AirflowUnchanged
    /\ UNCHANGED <<dens, contam, occupants, integ, elements, building, actuation>>

\* Controller::reset
ControllerReset ==
    /\ controller.pos = "ready"
    /\ controller.calls < MaxUpdates
    /\ controller.calls > 0
    /\ controller' = [controller EXCEPT !.c = Controller_reset(controller.c),
                                        !.before = controller.c, !.op = "reset",
                                        !.calls = @ + 1]
    /\ AirflowUnchanged
    /\ UNCHANGED <<dens, contam, occupants, integ, elements, building, actuation>>

ControllerNext == ControllerUpdate \/ ControllerReset

ControllerSpec == ControllerInit /\ [][ControllerNext]_vars /\ WF_vars(ControllerNext)

\* the error of the last update as the claims define it
LastError ==
    IF Abs(controller.c.setpoint - controller.reading) < controller.c.deadband THEN 0
    ELSE controller.c.setpoint - controller.reading

\* C12: every update computes e = setpoint - y (0 inside the deadband), sets output to
\* clamp(output + Kp*(e - prevError) + Ki*(e + prevError), outputMin, outputMax) and
\* prevError to e; the result is the same for every dt, and the output lies in
\* [outputMin, outputMax] after every update.
C12_IncrementalPI ==
    controller.pos = "ready" =>
        /\ controller.op = "update" =>
              /\ controller.c.prevError = LastError
              /\ controller.c.output =
                    Min(controller.c.outputMax,
                        Max(controller.c.outputMin,
                            controller.before.output
                              + controller.c.Kp * (LastError - controller.before.prevError)
                              + controller.c.Ki * (LastError + controller.before.prevError)))
              /\ controller.c.outputMin <= controller.c.output
              /\ controller.c.output <= controller.c.outputMax
              /\ \A dt \in UpdateSteps :
                    Controller_update(controller.before, controller.reading, dt) = controller.c
        /\ \A y \in Readings : \A d1, d2 \in UpdateSteps :
              Controller_update(controller.c, y, d1) = Controller_update(controller.c, y, d2)

\* an update with integral action and a previous error that was clamped from above
C12_Witness ==
    /\ controller.pos = "ready"
    /\ controller.op = "update"
    /\ controller.calls = 3
    /\ controller.c.Ki > 0
    /\ controller.before.prevError # 0
    /\ controller.dt = 2
    /\ controller.c.output = controller.c.outputMax
    /\ controller.before.output < controller.c.outputMax

----------------------------------------------------------------------------
(* ContaminantSolver.cpp                                                         *)
(* volumes: 1 unit = 0.25 m3; volume flows and matrix entries: 0.25 m3/s; mass   *)
(* flows: 0.25 kg/s; densities: 1 kg/m3; rates: 1/s; time steps: 1 s;            *)
(* concentrations: one concentration unit c; generation rates: 0.25 c m3/s       *)

\* 1.0 m3, the volume the assembly substitutes
ONE_M3 == 4

\* the number of step calls that are followed
MaxContamSteps == 2

\* a zone as the contaminant solver reads it: Node type, volume, density, pressure
Zone(type, volume, density, pressure) ==
    [type |-> type, volume |-> volume, density |-> density, pressure |-> pressure]

\* a link as the contaminant solver reads it, with the flow element it carries
FlowPath(from, to, massFlow, element, efficiency) ==
    [from |-> from, to |-> to, massFlow |-> massFlow, element |-> element,
     efficiency |-> efficiency]

\* Species: id, decayRate, outdoorConc
ContamSpecies(id, decayRate, outdoorConc) ==
    [id |-> id, decayRate |-> decayRate, outdoorConc |-> outdoorConc]

\* Source: zoneId, speciesId, type, generationRate, removalRate, pressureCoeff, cutoffConc;
\* scheduleId is -1 (always on)
Source(zoneId, speciesId, type, generationRate, removalRate, pressureCoeff, cutoffConc) ==
    [zoneId |-> zoneId, speciesId |-> speciesId, type |-> type,
     generationRate |-> generationRate, removalRate |-> removalRate,
     pressureCoeff |-> pressureCoeff, cutoffConc |-> cutoffConc]

\* Network::getNodeIndexById: zone ids are the zone positions; 0 stands for the
\* std::runtime_error the lookup throws for an id that is not in the map
getNodeIndexById(zones, id) == IF id \in 1..Len(zones) THEN id ELSE 0

\* ContaminantSolver::initialize
initialize(zones, species) ==
    [i \in 1..Len(zones) |->
        [k \in 1..Len(species) |->
            IF isKnownPressure(zones[i]) THEN species[k].outdoorConc ELSE 0]]

\* ContaminantSolver::setInitialConcentration
setInitialConcentration(C, nodeIdx, speciesIdx, conc) ==
    IF nodeIdx \in 1..Len(C) /\ speciesIdx \in 1..Len(C[nodeIdx])
    THEN [C EXCEPT ![nodeIdx][speciesIdx] = conc]
    ELSE C

\* unknownMap: the equation of zone i, 0 for an Ambient zone
unknownMap(zones, i) ==
    IF isKnownPressure(zones[i]) THEN 0
    ELSE Cardinality({j \in 1..i : ~isKnownPressure(zones[j])})

numUnknown(zones) == Cardinality({j \in 1..Len(zones) : ~isKnownPressure(zones[j])})

\* the zone of equation eq
zoneOfEq(zones, eq) == CHOOSE i \in 1..Len(zones) : unknownMap(zones, i) = eq

\* the volume of the time-derivative and decay terms, single-species path (lines 94-97)
Vi_single(node) == IF node.volume <= 0 THEN ONE_M3 ELSE node.volume

\* the volume of the time-derivative, decay and kinetics terms, coupled path (line 243)
Vi_coupled(node) == Max(node.volume, ONE_M3)

\* the volume of the removal sink, both paths (lines 199, 331)
Vi_removal(node) == node.volume

\* the upwind and downwind zone of a link and its volume flow massFlow / density(upwind)
upwind(link) == IF link.massFlow > 0 THEN link.from ELSE link.to
downwind(link) == IF link.massFlow > 0 THEN link.to ELSE link.from
flowRate(zones, link) == RoundDiv(Abs(link.massFlow), zones[upwind(link)].density)

\* the coefficient the assembly takes out of the upwind zone of a link and the one it puts
\* into the downwind zone: both are flowRate, whatever the flow element
removedCoeff(zones, link) == IF link.massFlow = 0 THEN 0 ELSE flowRate(zones, link)
deliveredCoeff(zones, link) == IF link.massFlow = 0 THEN 0 ELSE flowRate(zones, link)

\* A(eq, eq) += flowRate for every link leaving zone z
outflowTerm(zones, paths, z) ==
    SumSeq([l \in 1..Len(paths) |->
               IF paths[l].massFlow # 0 /\ upwind(paths[l]) = z
               THEN removedCoeff(zones, paths[l]) ELSE 0])

\* A(eqTo, eqFrom) -= flowRate for every link from unknown zone zf into zone zt
couplingTerm(zones, paths, zt, zf) ==
    SumSeq([l \in 1..Len(paths) |->
               IF paths[l].massFlow # 0 /\ upwind(paths[l]) = zf /\ downwind(paths[l]) = zt
               THEN deliveredCoeff(zones, paths[l]) ELSE 0])

\* b(eq) += flowRate * C[ambient] for every link from an Ambient zone into zone z
ambientInflow(zones, paths, C, z, k) ==
    SumSeq([l \in 1..Len(paths) |->
               IF paths[l].massFlow # 0 /\ downwind(paths[l]) = z
                  /\ isKnownPressure(zones[upwind(paths[l])])
               THEN deliveredCoeff(zones, paths[l]) * C[upwind(paths[l])][k] ELSE 0])

\* the generation a source adds to b in the single-species path, scheduleMult = 1
generation_single(zones, C, src, z, k) ==
    IF src.type = "PressureDriven"
    THEN src.pressureCoeff * Abs(zones[z].pressure)
    ELSE IF src.type = "CutoffConcentration"
    THEN (IF C[z][k] < src.cutoffConc THEN src.generationRate ELSE 0)
    ELSE src.generationRate

\* the generation a source adds to b in the coupled path, scheduleMult = 1
generation_coupled(src) == src.generationRate

\* the sources of species k that resolve to zone z
sourcesOf(zones, species, sources, z, k) ==
    {s \in 1..Len(sources) :
        /\ sources[s].speciesId = species[k].id
        /\ getNodeIndexById(zones, sources[s].zoneId) = z}

RECURSIVE SumOver(_, _)
\* the sum of f over a finite set of indices
SumOver(f, S) ==
    IF S = {} THEN 0
    ELSE LET x == CHOOSE y \in S : TRUE IN f[x] + SumOver(f, S \ {x})

\* A(eq, eq) += removalRate * V for the sources of species k in zone z
removalTerm(zones, species, sources, z, k) ==
    SumOver([s \in 1..Len(sources) |->
                IF sources[s].removalRate > 0
                THEN sources[s].removalRate * Vi_removal(zones[z]) ELSE 0],
            sourcesOf(zones, species, sources, z, k))

\* minor of the n x n matrix m for row 1 and column c
minor(m, n, c) ==
    [r \in 1..(n - 1) |-> [j \in 1..(n - 1) |-> m[r + 1][IF j < c THEN j ELSE j + 1]]]

RECURSIVE det(_, _)
\* determinant of the n x n matrix m
det(m, n) ==
    IF n = 0 THEN 1
    ELSE IF n = 1 THEN m[1][1]
    ELSE SumSeq([c \in 1..n |->
                    IF m[1][c] = 0 THEN 0
                    ELSE (IF c % 2 = 1 THEN 1 ELSE -1) * m[1][c] * det(minor(m, n, c), n - 1)])

\* A.colPivHouseholderQr().solve(b) for a regular n x n matrix A, by Cramer's rule, each
\* component rounded to the concentration unit
linearSolve(A, b, n) ==
    LET d == det(A, n)
    IN  [e \in 1..n |->
            RoundDiv(det([r \in 1..n |-> [c \in 1..n |-> IF c = e THEN b[r] ELSE A[r][c]]], n),
                     d)]

\* a variant of clampNonNegative that keeps the solved value
clampNonNegative_none(x) == x

\* std::max(0.0, C_new(eq))
clampNonNegative(x) == Max(0, x)

\* the matrix of ContaminantSolver::solveSpecies for species k
matrix_single(zones, paths, species, sources, dt, k) ==
    [r \in 1..numUnknown(zones) |-> [c \in 1..numUnknown(zones) |->
        IF r = c
        THEN RoundDiv(Vi_single(zones[zoneOfEq(zones, r)]), dt)
               + (IF species[k].decayRate > 0
                  THEN species[k].decayRate * Vi_single(zones[zoneOfEq(zones, r)]) ELSE 0)
               + outflowTerm(zones, paths, zoneOfEq(zones, r))
               - couplingTerm(zones, paths, zoneOfEq(zones, r), zoneOfEq(zones, r))
               + removalTerm(zones, species, sources, zoneOfEq(zones, r), k)
        ELSE - couplingTerm(zones, paths, zoneOfEq(zones, r), zoneOfEq(zones, c))]]

\* the right-hand side of ContaminantSolver::solveSpecies for species k
rhs_single(zones, paths, species, sources, C, dt, k) ==
    [r \in 1..numUnknown(zones) |->
        RoundDiv(Vi_single(zones[zoneOfEq(zones, r)]) * C[zoneOfEq(zones, r)][k], dt)
          + ambientInflow(zones, paths, C, zoneOfEq(zones, r), k)
          + SumOver([s \in 1..Len(sources) |-> generation_single(zones, C, sources[s],
                                                              zoneOfEq(zones, r), k)],
                    sourcesOf(zones, species, sources, zoneOfEq(zones, r), k))]

\* ContaminantSolver::solveSpecies
solveSpecies(zones, paths, species, sources, C, dt, k) ==
    IF numUnknown(zones) = 0 THEN C
    ELSE
    [i \in 1..Len(zones) |->
        IF unknownMap(zones, i) = 0 THEN C[i]
        ELSE [C[i] EXCEPT ![k] =
                 clampNonNegative(
                     linearSolve(matrix_single(zones, paths, species, sources, dt, k),
                                 rhs_single(zones, paths, species, sources, C, dt, k),
                                 numUnknown(zones))[unknownMap(zones, i)])]]

RECURSIVE solveAllSpecies(_, _, _, _, _, _, _)
\* the loop of ContaminantSolver::step over the species from k on
solveAllSpecies(zones, paths, species, sources, C, dt, k) ==
    IF k > Len(species) THEN C
    ELSE solveAllSpecies(zones, paths, species, sources,
                         solveSpecies(zones, paths, species, sources, C, dt, k), dt, k + 1)

\* idx(zoneEq, specIdx) of the block system, and its inverses
idx(zoneEq, specIdx, numSpecies) == (zoneEq - 1) * numSpecies + specIdx
eqOfRow(row, numSpecies) == ((row - 1) \div numSpecies) + 1
specOfRow(row, numSpecies) == ((row - 1) % numSpecies) + 1

\* the entry of the block matrix of ContaminantSolver::solveCoupled for equations of zones
\* zr, zc and species k, j with rate matrix K
entry_coupled(zones, paths, species, sources, K, dt, zr, k, zc, j) ==
    IF zr = zc /\ k = j
    THEN RoundDiv(Vi_coupled(zones[zr]), dt)
           + (IF species[k].decayRate > 0 THEN species[k].decayRate * Vi_coupled(zones[zr])
              ELSE 0)
           + (IF K[k][k] < 0 THEN Abs(K[k][k]) * Vi_coupled(zones[zr]) ELSE 0)
           + outflowTerm(zones, paths, zr)
           - couplingTerm(zones, paths, zr, zr)
           + removalTerm(zones, species, sources, zr, k)
    ELSE IF zr = zc THEN - K[k][j] * Vi_coupled(zones[zr])
    ELSE IF k = j THEN - couplingTerm(zones, paths, zr, zc)
    ELSE 0

matrix_coupled(zones, paths, species, sources, K, dt) ==
    [r \in 1..(numUnknown(zones) * Len(species)) |->
        [c \in 1..(numUnknown(zones) * Len(species)) |->
            entry_coupled(zones, paths, species, sources, K, dt,
                          zoneOfEq(zones, eqOfRow(r, Len(species))), specOfRow(r, Len(species)),
                          zoneOfEq(zones, eqOfRow(c, Len(species))), specOfRow(c, Len(species)))]]

\* the right-hand side of ContaminantSolver::solveCoupled for zone z and species k
rhsEntry_coupled(zones, paths, species, sources, C, dt, z, k) ==
    RoundDiv(Vi_coupled(zones[z]) * C[z][k], dt)
      + ambientInflow(zones, paths, C, z, k)
      + SumOver([s \in 1..Len(sources) |-> generation_coupled(sources[s])],
                sourcesOf(zones, species, sources, z, k))

rhs_coupled(zones, paths, species, sources, C, dt) ==
    [r \in 1..(numUnknown(zones) * Len(species)) |->
        rhsEntry_coupled(zones, paths, species, sources, C, dt,
                         zoneOfEq(zones, eqOfRow(r, Len(species))), specOfRow(r, Len(species)))]

\* ContaminantSolver::solveCoupled
solveCoupled(zones, paths, species, sources, K, C, dt) ==
    IF numUnknown(zones) = 0 THEN C
    ELSE
    [i \in 1..Len(zones) |->
        IF unknownMap(zones, i) = 0 THEN C[i]
        ELSE [k \in 1..Len(species) |->
                 clampNonNegative(
                     linearSolve(matrix_coupled(zones, paths, species, sources, K, dt),
                                 rhs_coupled(zones, paths, species, sources, C, dt),
                                 numUnknown(zones) * Len(species))
                       [idx(unknownMap(zones, i), k, Len(species))])]]

\* a variant of resetAmbient that leaves the Ambient rows as they are
resetAmbient_skip(zones, species, C) == C

\* the last loop of ContaminantSolver::step: Ambient rows take the outdoor concentrations
resetAmbient(zones, species, C) ==
    [i \in 1..Len(zones) |->
        IF isKnownPressure(zones[i]) THEN [k \in 1..Len(species) |-> species[k].outdoorConc]
        ELSE C[i]]

\* ContaminantSolver::step: the concentrations after the step
ContaminantSolver_step(zones, paths, species, sources, K, C, dt) ==
    IF Len(species) = 0 THEN C
    ELSE resetAmbient(zones, species,
                      IF K # <<>>
                      THEN solveCoupled(zones, paths, species, sources, K, C, dt)
                      ELSE solveAllSpecies(zones, paths, species, sources, C, dt, 1))

\* the volumes the terms of zone z used in a step: time derivative and decay (and kinetics
\* in the coupled path) share one, every removal sink of the zone reads another
volumesUsed(zones, species, sources, K, z) ==
    {IF K # <<>> THEN Vi_coupled(zones[z]) ELSE Vi_single(zones[z])}
      \cup {Vi_removal(zones[z]) : s \in {s \in 1..Len(sources) :
                                           /\ sources[s].removalRate > 0
                                           /\ getNodeIndexById(zones, sources[s].zoneId) = z
                                           /\ \E k \in 1..Len(species) :
                                                 sources[s].speciesId = species[k].id}}

\* solveSpecies, line 169 (solveCoupled, line 312): the lookup of the zone of a source
\* of species k throws; it is reached only behind the species test and numUnknown > 0
throwsAt(zones, species, sources, k) ==
    /\ numUnknown(zones) > 0
    /\ \E s \in 1..Len(sources) :
           /\ sources[s].speciesId = species[k].id
           /\ getNodeIndexById(zones, sources[s].zoneId) = 0

throwingSpecies(zones, species, sources) ==
    {k \in 1..Len(species) : throwsAt(zones, species, sources, k)}

\* ContaminantSolver::step leaves by the exception of getNodeIndexById
ContaminantSolver_stepThrows(zones, species, sources) ==
    throwingSpecies(zones, species, sources) # {}

\* the concentrations the exception leaves behind: the coupled path has stored nothing,
\* the single-species path has stored the species before the first throwing one
ContaminantSolver_stepThrown(zones, paths, species, sources, K, C, dt) ==
    IF K # <<>> THEN C
    ELSE LET first == CHOOSE k \in throwingSpecies(zones, species, sources) :
                          \A j \in throwingSpecies(zones, species, sources) : k <= j
         IN  solveAllSpecies(zones, paths, SubSeq(species, 1, first - 1), sources, C, dt, 1)

\* the networks, species, sources and rate matrices the solver is run on
ContamVolumes == {0, 2, 8}
Efficiencies == {50, 100}

\* outdoors and one room, fed through a Filter and relieved through an orifice
FilteredRoomNet(V, eta) ==
    [zones |-> <<Zone("Ambient", 0, 1, 0), Zone("Normal", V, 1, 3)>>,
     links |-> <<FlowPath(1, 2, 4, "Filter", eta), FlowPath(1, 2, -4, "PowerLawOrifice", 0)>>]

\* outdoors and two rooms in a loop, the Filter between the rooms
FilteredLoopNet(V, eta) ==
    [zones |-> <<Zone("Ambient", 0, 1, 0), Zone("Normal", V, 2, 3), Zone("Normal", 8, 1, 0)>>,
     links |-> <<FlowPath(1, 2, 4, "PowerLawOrifice", 0), FlowPath(2, 3, 4, "Filter", eta),
                 FlowPath(1, 3, -2, "PowerLawOrifice", 0),
                 FlowPath(3, 2, 0, "PowerLawOrifice", 0)>>]

ContamNetworks ==
    {FilteredRoomNet(V, eta) : V \in ContamVolumes, eta \in Efficiencies}
      \cup {FilteredLoopNet(2, 100), FilteredLoopNet(8, 0)}

ContamSpeciesList == <<ContamSpecies(1, 0, 40), ContamSpecies(2, 1, 0)>>

SourceLists ==
    {<<>>,
     <<Source(2, 2, "Constant", 8, 1, 0, 0)>>,
     <<Source(2, 2, "CutoffConcentration", 8, 0, 0, 30),
       Source(2, 2, "PressureDriven", 0, 0, 2, 0),
       Source(2, 2, "Constant", -40, 0, 0, 0),
       Source(1, 1, "Constant", 8, 0, 0, 0),
       Source(2, 7, "Constant", 8, 1, 0, 0)>>,
     <<Source(2, 1, "Constant", 8, 0, 0, 0),
       Source(9, 2, "Constant", 8, 1, 0, 0)>>}

\* no reaction network, or species 1 turning into species 2 at rate 1
RateMatrices == {<<>>, <<<<-1, 0>>, <<1, 0>>>>}

InitialConcentrations == {-20, 60}
ContamSteps == {1, 2}

ContaminantInit ==
    /\ IdleAirflow
    /\ \E net \in ContamNetworks, srcs \in SourceLists, K \in RateMatrices :
          contam = [pos |-> "constructed", zones |-> net.zones, links |-> net.links,
                    species |-> ContamSpeciesList, sources |-> srcs, K |-> K,
                    C |-> <<>>, before |-> <<>>, op |-> "none", steps |-> 0,
                    initial |-> FALSE, dt |-> 0,
                    removed |-> <<>>, delivered |-> <<>>, volumes |-> <<>>]
    /\ dens = [pos |-> "idle"]
    /\ controller = [pos |-> "idle"]
    /\ occupants = [pos |-> "idle"]
    /\ integ = [pos |-> "idle"]
    /\ elements = [pos |-> "idle"]
    /\ building = [pos |-> "idle"]
    /\ actuation = [pos |-> "idle"]

\* ContaminantSolver::initialize
ContamInitialize ==
    /\ contam.pos = "constructed"
    /\ contam' = [contam EXCEPT !.pos = "ready", !.op = "initialize", !.initial = TRUE,
                                !.C = initialize(contam.zones, contam.species)]
    /\ AirflowUnchanged
    /\ UNCHANGED <<dens, controller, occupants, integ, elements, building, actuation>>

\* ContaminantSolver::setInitialConcentration(nodeIdx, speciesIdx, conc), one call between
\* initialize and the first step
ContamSetInitial ==
    /\ contam.pos = "ready"
    /\ contam.initial
    /\ \E nodeIdx \in 0..Len(contam.zones), speciesIdx \in 1..Len(contam.species),
          conc \in InitialConcentrations :
          contam' = [contam EXCEPT !.C = setInitialConcentration(contam.C, nodeIdx,
                                                                 speciesIdx, conc),
                                   !.before = contam.C, !.op = "set", !.initial = FALSE]
    /\ AirflowUnchanged
    /\ UNCHANGED <<dens, controller, occupants, integ, elements, building, actuation>>

\* ContaminantSolver::step(network, t, dt), which returns or throws; before keeps the concentrations the step started
\* from, removed and delivered the flow coefficients of each link, volumes the volumes the
\* terms of each zone used
ContamStep ==
    /\ contam.pos = "ready"
    /\ contam.steps < MaxContamSteps
    /\ \E dt \in ContamSteps :
          contam' = [contam EXCEPT
              !.pos = IF ContaminantSolver_stepThrows(contam.zones, contam.species,
                                                      contam.sources)
                      THEN "thrown" ELSE "ready",
              !.C = IF ContaminantSolver_stepThrows(contam.zones, contam.species,
                                                    contam.sources)
                    THEN ContaminantSolver_stepThrown(contam.zones, contam.links,
                                                      contam.species, contam.sources,
                                                      contam.K, contam.C, dt)
                    ELSE ContaminantSolver_step(contam.zones, contam.links, contam.species,
                                                contam.sources, contam.K, contam.C, dt),
              !.dt = dt,
              !.before = contam.C, !.op = "step", !.steps = @ + 1, !.initial = FALSE,
              !.removed = [l \in 1..Len(contam.links) |->
                              removedCoeff(contam.zones, contam.links[l])],
              !.delivered = [l \in 1..Len(contam.links) |->
                                deliveredCoeff(contam.zones, contam.links[l])],
              !.volumes = [z \in 1..Len(contam.zones) |->
                              volumesUsed(contam.zones, contam.species, contam.sources,
                                          contam.K, z)]]
    /\ AirflowUnchanged
    /\ UNCHANGED <<dens, controller, occupants, integ, elements, building, actuation>>

ContaminantNext == ContamInitialize \/ ContamSetInitial \/ ContamStep

ContaminantSpec == ContaminantInit /\ [][ContaminantNext]_vars /\ WF_vars(ContaminantNext)

\* C14: after initialize and after every step, on either path, every Ambient zone holds
\* the outdoor concentration of every species, whatever setInitialConcentration wrote
\* there before.
C14_AmbientOutdoor ==
    (contam.pos = "ready" /\ contam.op \in {"initialize", "step"}) =>
        \A i \in 1..Len(contam.zones) :
            isKnownPressure(contam.zones[i]) =>
                \A k \in 1..Len(contam.species) :
                    contam.C[i][k] = contam.species[k].outdoorConc

\* a coupled step that started from an overwritten Ambient entry
C14_Witness ==
    /\ contam.pos = "ready"
    /\ contam.op = "step"
    /\ contam.K # <<>>
    /\ \E i \in 1..Len(contam.zones) :
          /\ isKnownPressure(contam.zones[i])
          /\ \E k \in 1..Len(contam.species) :
                /\ contam.before[i][k] # contam.species[k].outdoorConc
                /\ contam.C[i][k] = contam.species[k].outdoorConc

\* C15: after every step no concentration of a non-Ambient zone is negative.
C15_NonNegative ==
    (contam.pos = "ready" /\ contam.op = "step") =>
        \A i \in 1..Len(contam.zones) :
            ~isKnownPressure(contam.zones[i]) =>
                \A k \in 1..Len(contam.species) : contam.C[i][k] >= 0

\* a step that started from a negative concentration and clamped it to 0, while another
\* concentration of the zone stayed positive
C15_Witness ==
    /\ contam.pos = "ready"
    /\ contam.op = "step"
    /\ \E i \in 1..Len(contam.zones) :
          /\ ~isKnownPressure(contam.zones[i])
          /\ \E k, j \in 1..Len(contam.species) :
                /\ contam.before[i][k] < 0
                /\ contam.C[i][k] = 0
                /\ contam.C[i][j] > 0

\* C16 as stated: across a Filter link of efficiency eta the step delivers (1 - eta) times
\* what it removes; a zone that starts empty, has no source and is fed only through
\* Filters of efficiency 1 stays empty.
C16_FilterRemovesSpecies ==
    (contam.pos = "ready" /\ contam.op = "step") =>
        /\ \A l \in 1..Len(contam.links) :
              contam.links[l].element = "Filter" =>
                  100 * contam.delivered[l]
                      = (100 - contam.links[l].efficiency) * contam.removed[l]
        /\ \A z \in 1..Len(contam.zones) : \A k \in 1..Len(contam.species) :
              (/\ ~isKnownPressure(contam.zones[z])
               /\ contam.K = <<>>
               /\ contam.before[z][k] = 0
               /\ sourcesOf(contam.zones, contam.species, contam.sources, z, k) = {}
               /\ \A l \in 1..Len(contam.links) :
                     (contam.links[l].massFlow # 0 /\ downwind(contam.links[l]) = z) =>
                         (contam.links[l].element = "Filter"
                            /\ contam.links[l].efficiency = 100))
                  => contam.C[z][k] = 0

\* C17 as stated: every volume a term of a non-Ambient zone used in a step is
\* max(V, 1 m3), on either path.
C17_VolumeFloor ==
    (contam.pos = "ready" /\ contam.op = "step") =>
        \A z \in 1..Len(contam.zones) :
            ~isKnownPressure(contam.zones[z]) =>
                contam.volumes[z] = {Max(contam.zones[z].volume, ONE_M3)}

----------------------------------------------------------------------------
(* Occupant.h, TransientSimulation::updateOccupantExposure                       *)
(* concentrations: 1 unit = 1e-15 kg/m3; times and steps: 1 s; breathing rates:  *)
(* one rate unit; schedule values: 1 unit = 0.1; zone and species indices count  *)
(* from 0 as in the code, sequences are read at index + 1                        *)

\* the concentration above which exposure time accumulates
EXPOSURE_EPS == 1

\* the number of time steps the occupants are followed through
MaxOccupantSteps == 3

\* ExposureRecord after Occupant::initExposure
ExposureRecord(speciesIdx) ==
    [speciesIdx |-> speciesIdx, cumulativeDose |-> 0, peakConcentration |-> 0,
     timeAtPeak |-> 0, totalExposureTime |-> 0]

\* Occupant::Occupant(id, name, zoneIdx, breathRate) with scheduleId assigned afterwards
Occupant(zoneIdx, breathRate, scheduleId) ==
    [currentZoneIdx |-> zoneIdx, breathingRate |-> breathRate, scheduleId |-> scheduleId,
     exposure |-> <<>>]

\* Occupant::initExposure
initExposure(occ, numSpecies) ==
    [occ EXCEPT !.exposure = [i \in 1..numSpecies |-> ExposureRecord(i - 1)]]

\* a variant of peakUpdate that also moves the peak time when the peak is met again
peakUpdate_atEqual(rec, conc, tNow) ==
    IF conc >= rec.peakConcentration
    THEN [rec EXCEPT !.peakConcentration = conc, !.timeAtPeak = tNow]
    ELSE rec

\* peak tracking, lines 52-55
peakUpdate(rec, conc, tNow) ==
    IF conc > rec.peakConcentration
    THEN [rec EXCEPT !.peakConcentration = conc, !.timeAtPeak = tNow]
    ELSE rec

\* the body of the loop of Occupant::updateExposure for one record
updateRecord(rec, breathingRate, zoneConcentrations, tNow, dt) ==
    IF rec.speciesIdx >= Len(zoneConcentrations) THEN rec
    ELSE [peakUpdate(rec, zoneConcentrations[rec.speciesIdx + 1], tNow) EXCEPT
              !.cumulativeDose = @ + breathingRate * zoneConcentrations[rec.speciesIdx + 1] * dt,
              !.totalExposureTime =
                  IF zoneConcentrations[rec.speciesIdx + 1] > EXPOSURE_EPS THEN @ + dt ELSE @]

\* Occupant::updateExposure
updateExposure(occ, zoneConcentrations, tNow, dt) ==
    [occ EXCEPT !.exposure =
        [i \in 1..Len(occ.exposure) |->
            updateRecord(occ.exposure[i], occ.breathingRate, zoneConcentrations, tNow, dt)]]

RECURSIVE segmentValue(_, _, _)
\* the value of a schedule table at time t inside its range, from point i on
segmentValue(points, tNow, i) ==
    IF tNow <= points[i + 1].time
    THEN points[i].value
           + RoundDiv((points[i + 1].value - points[i].value) * (tNow - points[i].time),
                      points[i + 1].time - points[i].time)
    ELSE segmentValue(points, tNow, i + 1)

\* Schedule::getValue: linear interpolation, constant outside the table
Schedule_getValue(points, tNow) ==
    IF tNow <= points[1].time THEN points[1].value
    ELSE IF tNow >= points[Len(points)].time THEN points[Len(points)].value
    ELSE segmentValue(points, tNow, 1)

\* static_cast<int>(std::round(value)) of a schedule value in tenths
roundToInt(value) == RoundDiv(value, 10)

\* a variant of scheduledZone that does not validate the index
scheduledZone_unchecked(occ, conc, schedules, tNow) ==
    IF occ.scheduleId >= 0 /\ occ.scheduleId \in DOMAIN schedules
    THEN roundToInt(Schedule_getValue(schedules[occ.scheduleId], tNow))
    ELSE occ.currentZoneIdx

\* lines 235-244: the zone index of the occupant after the schedule was applied
scheduledZone(occ, conc, schedules, tNow) ==
    IF occ.scheduleId >= 0 /\ occ.scheduleId \in DOMAIN schedules
    THEN (IF roundToInt(Schedule_getValue(schedules[occ.scheduleId], tNow)) >= 0
             /\ roundToInt(Schedule_getValue(schedules[occ.scheduleId], tNow)) < Len(conc)
          THEN roundToInt(Schedule_getValue(schedules[occ.scheduleId], tNow))
          ELSE occ.currentZoneIdx)
    ELSE occ.currentZoneIdx

\* lines 230-233: exposure records are created when their number is not numSpecies
ensureExposure(occ, numSpecies) ==
    IF Len(occ.exposure) # numSpecies THEN initExposure(occ, numSpecies) ELSE occ

\* lines 246-247: the zone index is inside the zone array
zoneInside(zoneIdx, conc) == zoneIdx >= 0 /\ zoneIdx < Len(conc)

\* the body of the loop of updateOccupantExposure for one occupant
updateOccupant(occ, conc, schedules, numSpecies, tNow, dt) ==
    IF zoneInside(scheduledZone(occ, conc, schedules, tNow), conc)
    THEN updateExposure(
             [ensureExposure(occ, numSpecies) EXCEPT
                  !.currentZoneIdx = scheduledZone(occ, conc, schedules, tNow)],
             conc[scheduledZone(occ, conc, schedules, tNow) + 1], tNow, dt)
    ELSE [ensureExposure(occ, numSpecies) EXCEPT
              !.currentZoneIdx = scheduledZone(occ, conc, schedules, tNow)]

\* TransientSimulation::updateOccupantExposure
updateOccupantExposure(occs, conc, schedules, numSpecies, tNow, dt) ==
    [o \in 1..Len(occs) |-> updateOccupant(occs[o], conc, schedules, numSpecies, tNow, dt)]

\* the updateExposure calls updateOccupantExposure makes for one occupant
exposureCalls(occ, conc, schedules, tNow, dt) ==
    IF zoneInside(scheduledZone(occ, conc, schedules, tNow), conc)
    THEN <<[C |-> conc[scheduledZone(occ, conc, schedules, tNow) + 1], t |-> tNow, dt |-> dt,
            zone |-> scheduledZone(occ, conc, schedules, tNow)]>>
    ELSE <<>>

\* zone schedules: points (time, value in tenths)
Point(time, value) == [time |-> time, value |-> value]
ZoneSchedules ==
    {[s \in {1} |-> <<Point(0, 0), Point(2, 10), Point(4, 30)>>],
     [s \in {1} |-> <<Point(1, -10), Point(3, 14), Point(5, 5)>>]}

\* concentration matrices of two zones and two species
OccupantConcentrations ==
    {<<<<0, 0>>, <<0, 0>>>>,
     <<<<5, 1>>, <<3, 0>>>>,
     <<<<3, 2>>, <<5, 5>>>>}

\* concentration vectors of direct updateExposure calls
DirectConcentrations == {<<5>>, <<-2, 3>>}

OccupantZones == {0, 1, 2}
OccupantScheduleIds == {-1, 1, 7}
OccupantSteps == {1, 2}
NumOccupantSpecies == 2

OccupantInit ==
    /\ IdleAirflow
    /\ \E z \in OccupantZones, sid \in OccupantScheduleIds, sch \in ZoneSchedules :
          occupants = [pos |-> "ready",
                       occ |-> <<Occupant(z, 2, sid), Occupant(0, 1, -1)>>,
                       before |-> <<Occupant(z, 2, sid), Occupant(0, 1, -1)>>,
                       schedules |-> sch, conc |-> <<<<0, 0>>, <<0, 0>>>>,
                       t |-> 0, dt |-> 0, steps |-> 0, op |-> "none",
                       calls |-> <<<<>>, <<>>>>, last |-> <<<<>>, <<>>>>]
    /\ dens = [pos |-> "idle"]
    /\ controller = [pos |-> "idle"]
    /\ contam = [pos |-> "idle"]
    /\ integ = [pos |-> "idle"]
    /\ elements = [pos |-> "idle"]
    /\ building = [pos |-> "idle"]
    /\ actuation = [pos |-> "idle"]

\* one time step of TransientSimulation::run as the occupants see it: the contaminant step
\* leaves new concentrations, t advances by dt, updateOccupantExposure(contSolver, t, dt);
\* calls keeps every updateExposure call of each occupant, last those of this step
OccupantStep ==
    /\ occupants.pos = "ready"
    /\ occupants.steps < MaxOccupantSteps
    /\ \E dt \in OccupantSteps, conc \in OccupantConcentrations :
          occupants' = [occupants EXCEPT
              !.conc = conc, !.t = @ + dt, !.dt = dt, !.steps = @ + 1, !.op = "step",
              !.before = occupants.occ,
              !.occ = updateOccupantExposure(occupants.occ, conc, occupants.schedules,
                                             NumOccupantSpecies, occupants.t + dt, dt),
              !.last = [o \in 1..Len(occupants.occ) |->
                           exposureCalls(occupants.occ[o], conc, occupants.schedules,
                                         occupants.t + dt, dt)],
              !.calls = [o \in 1..Len(occupants.occ) |->
                            @[o] \o exposureCalls(occupants.occ[o], conc, occupants.schedules,
                                                  occupants.t + dt, dt)]]
    /\ AirflowUnchanged
    /\ UNCHANGED <<dens, controller, contam, integ, elements, building, actuation>>

\* a direct Occupant::updateExposure call on the second occupant, after initExposure
OccupantDirectUpdate ==
    /\ occupants.pos = "ready"
    /\ occupants.steps < MaxOccupantSteps
    /\ Len(occupants.occ[2].exposure) = NumOccupantSpecies
    /\ \E dt \in OccupantSteps, C \in DirectConcentrations :
          occupants' = [occupants EXCEPT
              !.dt = dt, !.steps = @ + 1, !.op = "direct",
              !.before = occupants.occ,
              !.occ[2] = updateExposure(occupants.occ[2], C, occupants.t, dt),
              !.last = <<<<>>, <<[C |-> C, t |-> occupants.t, dt |-> dt, zone |-> -1]>>>>,
              !.calls[2] = Append(@, [C |-> C, t |-> occupants.t, dt |-> dt, zone |-> -1])]
    /\ AirflowUnchanged
    /\ UNCHANGED <<dens, controller, contam, integ, elements, building, actuation>>

OccupantNext == OccupantStep \/ OccupantDirectUpdate

OccupantSpec == OccupantInit /\ [][OccupantNext]_vars /\ WF_vars(OccupantNext)

\* the calls of a sequence that carried a concentration of species index k
CallsWith(calls, k) == SelectSeq(calls, LAMBDA c : k < Len(c.C))

\* the largest concentration of species index k over the calls, 0 if none was positive
PeakOf(calls, k) == MaxSeq([i \in 1..Len(calls) |-> Max(0, calls[i].C[k + 1])])

\* the time of the first call that carried concentration v of species index k
FirstTimeOf(calls, k, v) ==
    calls[CHOOSE i \in 1..Len(calls) :
              /\ calls[i].C[k + 1] = v
              /\ \A j \in 1..(i - 1) : calls[j].C[k + 1] # v].t

\* C18: after any sequence of updateExposure calls following initExposure, for each
\* species the dose is the sum of breathingRate * C * dt, the peak is the largest
\* concentration seen (0 if none was positive), timeAtPeak is the time of the first call
\* that saw the peak (0 while no concentration was positive), totalExposureTime is the sum
\* of dt over the calls with C > 1e-15; a call with C >= 0 decreases neither dose, peak
\* nor exposure time.
C18_ExposureRecords ==
    occupants.pos = "ready" =>
        \A o \in 1..Len(occupants.occ) : \A r \in 1..Len(occupants.occ[o].exposure) :
            LET rec == occupants.occ[o].exposure[r]
                calls == CallsWith(occupants.calls[o], rec.speciesIdx)
                k == rec.speciesIdx
            IN  /\ rec.cumulativeDose =
                      SumSeq([i \in 1..Len(calls) |->
                                 occupants.occ[o].breathingRate * calls[i].C[k + 1]
                                   * calls[i].dt])
                /\ rec.peakConcentration = PeakOf(calls, k)
                /\ rec.timeAtPeak =
                      (IF PeakOf(calls, k) > 0 THEN FirstTimeOf(calls, k, PeakOf(calls, k))
                       ELSE 0)
                /\ rec.totalExposureTime =
                      SumSeq([i \in 1..Len(calls) |->
                                 IF calls[i].C[k + 1] > EXPOSURE_EPS THEN calls[i].dt ELSE 0])
                /\ (/\ Len(occupants.before[o].exposure) = Len(occupants.occ[o].exposure)
                    /\ \A c \in 1..Len(occupants.last[o]) :
                          \A j \in 1..Len(occupants.last[o][c].C) :
                              occupants.last[o][c].C[j] >= 0)
                      => /\ rec.cumulativeDose >= occupants.before[o].exposure[r].cumulativeDose
                         /\ rec.peakConcentration
                                >= occupants.before[o].exposure[r].peakConcentration
                         /\ rec.totalExposureTime
                                >= occupants.before[o].exposure[r].totalExposureTime

\* an occupant that met its peak concentration in two calls and a concentration of exactly
\* 1e-15 in between
C18_Witness ==
    /\ occupants.pos = "ready"
    /\ \E o \in 1..Len(occupants.occ) : \E r \in 1..Len(occupants.occ[o].exposure) :
          LET k == occupants.occ[o].exposure[r].speciesIdx
              calls == occupants.calls[o]
          IN  /\ Len(calls) = 3
              /\ \A i \in 1..3 : k < Len(calls[i].C)
              /\ calls[1].C[k + 1] = calls[3].C[k + 1]
              /\ calls[1].C[k + 1] > calls[2].C[k + 1]
              /\ calls[2].C[k + 1] = EXPOSURE_EPS
              /\ occupants.occ[o].exposure[r].timeAtPeak = calls[1].t
              /\ occupants.occ[o].exposure[r].totalExposureTime = calls[1].dt + calls[3].dt

\* C19: in updateOccupantExposure an occupant with a schedule moves to round(schedule
\* value at t) only if that index is inside the zone array; with an index outside, an
\* unknown schedule id or no schedule it stays where it was. Each call accumulates
\* exposure for an occupant from the concentrations of its zone, once, when the zone index
\* is inside the zone array, and not at all when it is outside.
C19_ZoneValidated ==
    (occupants.pos = "ready" /\ occupants.op = "step") =>
        \A o \in 1..Len(occupants.occ) :
            LET old == occupants.before[o]
                new == occupants.occ[o]
                known == old.scheduleId >= 0 /\ old.scheduleId \in DOMAIN occupants.schedules
                target == IF known
                          THEN RoundDiv(Schedule_getValue(occupants.schedules[old.scheduleId],
                                                          occupants.t), 10)
                          ELSE -1
                inside == known /\ 0 <= target /\ target < Len(occupants.conc)
            IN  /\ inside => new.currentZoneIdx = target
                /\ ~inside => new.currentZoneIdx = old.currentZoneIdx
                /\ Len(occupants.last[o]) <= 1
                /\ Len(occupants.last[o]) = 1 <=>
                      (0 <= new.currentZoneIdx /\ new.currentZoneIdx < Len(occupants.conc))
                /\ \A c \in 1..Len(occupants.last[o]) :
                      /\ occupants.last[o][c].zone = new.currentZoneIdx
                      /\ occupants.last[o][c].C = occupants.conc[new.currentZoneIdx + 1]
                      /\ occupants.last[o][c].t = occupants.t
                /\ Len(occupants.calls[o]) <= occupants.steps

\* a step whose schedule value rounds to an index outside the zone array: the occupant
\* stays in the zone of the step before and is exposed there
C19_Witness ==
    /\ occupants.pos = "ready"
    /\ occupants.op = "step"
    /\ occupants.occ[1].scheduleId \in DOMAIN occupants.schedules
    /\ RoundDiv(Schedule_getValue(occupants.schedules[occupants.occ[1].scheduleId],
                                  occupants.t), 10) >= Len(occupants.conc)
    /\ occupants.occ[1].currentZoneIdx = 1
    /\ occupants.before[1].currentZoneIdx = 1
    /\ Len(occupants.calls[1]) >= 2
    /\ Len(occupants.last[1]) = 1
    /\ occupants.last[1][1].zone = 1

----------------------------------------------------------------------------
(* AdaptiveIntegrator.cpp                                                        *)
(* times and steps: 1 unit = 0.0005 s, so the 1e-14 s tolerance of the loop test *)
(* is below one unit; the state vector enters the control flow of step only      *)
(* through the error estimate, which is an input of each loop pass               *)

\* the cap on loop passes (maxInternalSteps, 100000 in the code) and the number of calls
MaxInternalSteps == 6
MaxIntegCalls == 2

\* Config: dtMin = 0.01 s, dtMax = 0.04 s
IntegConfig == [dtMin |-> 20, dtMax |-> 80]

\* AdaptiveIntegrator::AdaptiveIntegrator: suggestedDt_
initialSuggestedDt(config) ==
    Min(config.dtMax, Max(config.dtMin, RoundDiv(config.dtMax - config.dtMin, 100)))

\* an error estimate: 100 * error and 10 * (1 / error)^(1/2)
ErrorEstimate(err100, invRoot10) == [err100 |-> err100, invRoot10 |-> invRoot10]

\* errors 0, 0.25, 4 and 100
ErrorEstimates ==
    {ErrorEstimate(0, 0), ErrorEstimate(25, 20), ErrorEstimate(400, 5),
     ErrorEstimate(10000, 1)}

\* a variant of computeNewDt without the floor at dtMin
computeNewDt_noFloor(config, dt, error) ==
    IF error.err100 = 0 THEN Min(dt * 5, config.dtMax)
    ELSE Min(RoundDiv(dt * Max(20, Min(9 * error.invRoot10, 500)), 100), config.dtMax)

\* AdaptiveIntegrator::computeNewDt for order 1, safetyFactor 0.9
computeNewDt(config, dt, error) ==
    IF error.err100 = 0 THEN Min(dt * 5, config.dtMax)
    ELSE Max(config.dtMin,
             Min(RoundDiv(dt * Max(20, Min(9 * error.invRoot10, 500)), 100), config.dtMax))

\* lines 165-172: the locals of step at loop entry
stepEntry(g, tStart, dtTarget) ==
    [g EXCEPT !.pos = "loop", !.t = tStart, !.dtTarget = dtTarget,
              !.tCurrent = tStart, !.tEnd = tStart + dtTarget,
              !.dt = Min(Max(Min(g.suggestedDt, dtTarget), g.config.dtMin), g.config.dtMax),
              !.internalSteps = 0, !.calls = @ + 1]

\* lines 176-178: the step clamped to the remainder
clampedToEnd(g) == IF g.tCurrent + g.dt > g.tEnd THEN g.tEnd - g.tCurrent ELSE g.dt

\* lines 174-221: one pass of the loop with the given error estimate
loopPass(g, error) ==
    IF ~(g.tCurrent < g.tEnd) THEN [g EXCEPT !.pos = "return"]
    ELSE IF 2 * clampedToEnd(g) < g.config.dtMin
    THEN [g EXCEPT !.dt = clampedToEnd(g), !.pos = "return"]
    ELSE IF g.internalSteps + 1 > MaxInternalSteps
    THEN [g EXCEPT !.dt = clampedToEnd(g), !.internalSteps = @ + 1, !.pos = "return"]
    ELSE IF error.err100 > 100 /\ 100 * clampedToEnd(g) > 101 * g.config.dtMin
    THEN [g EXCEPT !.internalSteps = @ + 1, !.rejectedSteps = @ + 1,
                   !.dt = Max(computeNewDt(g.config, clampedToEnd(g), error),
                              g.config.dtMin)]
    ELSE [g EXCEPT !.internalSteps = @ + 1, !.totalSteps = @ + 1, !.yVersion = @ + 1,
                   !.suggestedDt = computeNewDt(g.config, clampedToEnd(g), error),
                   !.tCurrent = @ + clampedToEnd(g),
                   !.dt = Max(Min(computeNewDt(g.config, clampedToEnd(g), error),
                                  g.tEnd - (g.tCurrent + clampedToEnd(g))),
                              g.config.dtMin)]

\* the targets step is called with: below dtMin / 2, dtMin / 2, and above dtMin
StepTargets == {4, 10, 24, 40, 100}

\* no sub-step has been tried yet
NoTry == [ran |-> FALSE]

\* the sub-step a loop pass tried: its size, the error estimate it got, and the
\* integrator as the pass found it
Tried(g, error) ==
    [ran |-> TRUE, dt |-> clampedToEnd(g), error |-> error,
     tCurrent |-> g.tCurrent, yVersion |-> g.yVersion, suggestedDt |-> g.suggestedDt,
     totalSteps |-> g.totalSteps, rejectedSteps |-> g.rejectedSteps]

IntegratorInit ==
    /\ IdleAirflow
    /\ integ = [pos |-> "ready", config |-> IntegConfig,
                suggestedDt |-> initialSuggestedDt(IntegConfig),
                t |-> 0, dtTarget |-> 0, tCurrent |-> 0, tEnd |-> 0, dt |-> 0,
                internalSteps |-> 0, totalSteps |-> 0, rejectedSteps |-> 0,
                calls |-> 0, returned |-> 0, yVersion |-> 0, tried |-> NoTry]
    /\ dens = [pos |-> "idle"]
    /\ controller = [pos |-> "idle"]
    /\ contam = [pos |-> "idle"]
    /\ occupants = [pos |-> "idle"]
    /\ elements = [pos |-> "idle"]
    /\ building = [pos |-> "idle"]
    /\ actuation = [pos |-> "idle"]

\* a call step(t, dtTarget, y, rhs), the first from t = 0, the next from the time returned
IntegStepCall ==
    /\ integ.pos = "ready"
    /\ integ.calls < MaxIntegCalls
    /\ \E dtTarget \in StepTargets :
          integ' = stepEntry(integ, integ.returned, dtTarget)
    /\ AirflowUnchanged
    /\ UNCHANGED <<dens, controller, contam, occupants, elements, building, actuation>>

\* one pass of the while loop, the error estimate being whatever the rhs produces; yVersion
\* counts the assignments to y, tried keeps what the pass tried when it got to an estimate
IntegLoopPass ==
    /\ integ.pos = "loop"
    /\ \E error \in ErrorEstimates :
           integ' = [loopPass(integ, error) EXCEPT
                        !.tried = IF loopPass(integ, error).pos = "loop"
                                  THEN Tried(integ, error) ELSE NoTry]
    /\ AirflowUnchanged
    /\ UNCHANGED <<dens, controller, contam, occupants, elements, building, actuation>>

\* return tCurrent
IntegReturn ==
    /\ integ.pos = "return"
    /\ integ' = [integ EXCEPT !.pos = "ready", !.returned = integ.tCurrent]
    /\ AirflowUnchanged
    /\ UNCHANGED <<dens, controller, contam, occupants, elements, building, actuation>>

IntegratorNext == IntegStepCall \/ IntegLoopPass \/ IntegReturn

IntegratorSpec == IntegratorInit /\ [][IntegratorNext]_vars /\ WF_vars(IntegratorNext)

\* C20 as stated: step never advances past t + dtTarget, makes a bounded number of loop
\* passes, and returns t + dtTarget.
C20_ReachesTarget ==
    /\ integ.pos \in {"loop", "return"} =>
          /\ integ.tCurrent <= integ.tEnd
          /\ integ.internalSteps <= MaxInternalSteps + 1
    /\ (integ.pos = "ready" /\ integ.calls > 0) =>
          integ.returned = integ.t + integ.dtTarget


----------------------------------------------------------------------------
(***************************************************************************)
(* Flow elements on their own: constructors and calculate                  *)
(*                                                                         *)
(* Units of this section: pressure in quarters of DP_MIN, so that pressure *)
(* drops below DP_MIN other than 0 exist; density in 0.1 kg/m^3; an        *)
(* exponent n as 10 n; a damper fraction in halves; a filter efficiency in *)
(* percent. linearSlope, massFlow and derivative are carried as 24 times   *)
(* their value, which keeps |dP|^n and |dP|^(n-1) exact for n = 0.5 on the *)
(* sampled pressure drops 1, 4, 9, 16. Coefficients are even, so that      *)
(* Cmax * fraction is exact.                                               *)
(***************************************************************************)
ELEM_DP_MIN == 4
RHO_REF == 12
FRACTION_ONE == 2
EFFICIENCY_ONE == 100
N_MIN == 5
N_MAX == 10
DEFAULT_HEIGHT == 2

\* what a constructor that throws std::invalid_argument leaves: no element
InvalidParameter == [kind |-> "InvalidParameter"]

\* std::pow(x, n) for x > 0 and n = 0.5 or n = 1
powN(x, n) == IF n = N_MAX THEN x ELSE Sqrt(x)

\* 24 * std::pow(x, n - 1.0) for x > 0 and n = 0.5 or n = 1
powNm1(x, n) == IF n = N_MAX THEN 24 ELSE 24 \div Sqrt(x)

\* PowerLawOrifice::PowerLawOrifice
PowerLawOrifice_new(C, n) ==
    IF C <= 0 THEN InvalidParameter
    ELSE IF n < N_MIN \/ n > N_MAX THEN InvalidParameter
    ELSE [kind |-> "PowerLawOrifice", C |-> C, n |-> n,
          linearSlope |-> C * powNm1(ELEM_DP_MIN, n)]

\* PowerLawOrifice::calculate
PowerLawOrifice_calculate(e, deltaP, density) ==
    LET absDp == Abs(deltaP)
        sign == IF deltaP >= 0 THEN 1 ELSE -1
    IN  IF absDp < ELEM_DP_MIN
        THEN [massFlow |-> density * e.linearSlope * deltaP,
              derivative |-> density * e.linearSlope]
        ELSE [massFlow |-> density * (e.C * powN(absDp, e.n)) * sign * 24,
              derivative |-> (density * e.n * e.C * powNm1(absDp, e.n)) \div 10]

\* Fan::Fan testing the shutoff pressure as given
Fan_new_signed(maxFlow, shutoffPressure) ==
    IF maxFlow <= 0 THEN InvalidParameter
    ELSE IF shutoffPressure <= 0 THEN InvalidParameter
    ELSE [kind |-> "Fan", maxFlow |-> maxFlow, shutoffPressure |-> shutoffPressure]

\* Fan::Fan: the shutoff pressure is stored as its absolute value before the test
Fan_new(maxFlow, shutoffPressure) ==
    LET shutoff == Abs(shutoffPressure)
    IN  IF maxFlow <= 0 THEN InvalidParameter
        ELSE IF shutoff <= 0 THEN InvalidParameter
        ELSE [kind |-> "Fan", maxFlow |-> maxFlow, shutoffPressure |-> shutoff]

\* TwoWayFlow::TwoWayFlow (linearSlope_, which no property here reads, is left out)
TwoWayFlow_new(Cd, area, height, width) ==
    IF Cd <= 0 \/ area <= 0 THEN InvalidParameter
    ELSE LET h == IF height <= 0 THEN DEFAULT_HEIGHT ELSE height
         IN  [kind |-> "TwoWayFlow", Cd |-> Cd, area |-> area, height |-> h,
              width |-> IF width > 0 THEN width ELSE area \div h]

\* Damper::updateEffective; 1e-15 is below the resolution of the model and reads 0
Damper_updateEffective(d) ==
    LET Ceff == (d.Cmax * d.fraction) \div FRACTION_ONE
    IN  [d EXCEPT !.Ceff = Ceff,
                  !.linearSlope = IF Ceff > 0
                                  THEN (RHO_REF * Ceff * powN(ELEM_DP_MIN, d.n) * 24)
                                           \div ELEM_DP_MIN
                                  ELSE 0]

\* Damper::Damper
Damper_new(Cmax, n, fraction) ==
    IF Cmax <= 0 THEN InvalidParameter
    ELSE IF n < N_MIN \/ n > N_MAX THEN InvalidParameter
    ELSE Damper_updateEffective([kind |-> "Damper", Cmax |-> Cmax, n |-> n,
                                 fraction |-> clamp(fraction, 0, FRACTION_ONE),
                                 Ceff |-> 0, linearSlope |-> 0])

\* Damper::setFraction
Damper_setFraction(d, f) ==
    Damper_updateEffective([d EXCEPT !.fraction = clamp(f, 0, FRACTION_ONE)])

\* Damper::calculate
Damper_calculate(d, deltaP, density) ==
    IF d.Ceff <= 0 THEN [massFlow |-> 0, derivative |-> 0]
    ELSE LET absDp == Abs(deltaP)
             sign == IF deltaP >= 0 THEN 1 ELSE -1
         IN  IF absDp < ELEM_DP_MIN
             THEN [massFlow |-> d.linearSlope * deltaP, derivative |-> d.linearSlope]
             ELSE [massFlow |-> density * d.Ceff * powN(absDp, d.n) * sign * 24,
                   derivative |-> (d.n * density * d.Ceff * powNm1(absDp, d.n)) \div 10]

\* Filter::Filter
Filter_new(C, n, efficiency) ==
    IF C <= 0 THEN InvalidParameter
    ELSE IF n < N_MIN \/ n > N_MAX THEN InvalidParameter
    ELSE [kind |-> "Filter", C |-> C, n |-> n,
          efficiency |-> clamp(efficiency, 0, EFFICIENCY_ONE),
          linearSlope |-> (RHO_REF * C * powN(ELEM_DP_MIN, n) * 24) \div ELEM_DP_MIN]

\* Filter::calculate
Filter_calculate(f, deltaP, density) ==
    LET absDp == Abs(deltaP)
        sign == IF deltaP >= 0 THEN 1 ELSE -1
    IN  IF absDp < ELEM_DP_MIN
        THEN [massFlow |-> f.linearSlope * deltaP, derivative |-> f.linearSlope]
        ELSE [massFlow |-> density * f.C * powN(absDp, f.n) * sign * 24,
              derivative |-> (f.n * density * f.C * powNm1(absDp, f.n)) \div 10]

\* FlowElement::calculate, dispatched on the dynamic type
FlowElement_calculate(e, deltaP, density) ==
    CASE e.kind = "PowerLawOrifice" -> PowerLawOrifice_calculate(e, deltaP, density)
      [] e.kind = "Damper" -> Damper_calculate(e, deltaP, density)
      [] e.kind = "Filter" -> Filter_calculate(e, deltaP, density)

\* the constructor call of a request
construct(req) ==
    CASE req.kind = "PowerLawOrifice" -> PowerLawOrifice_new(req.a, req.n)
      [] req.kind = "Fan" -> Fan_new(req.a, req.b)
      [] req.kind = "TwoWayFlow" -> TwoWayFlow_new(req.a, req.b, req.c, req.d)
      [] req.kind = "Damper" -> Damper_new(req.a, req.n, req.c)
      [] req.kind = "Filter" -> Filter_new(req.a, req.n, req.c)

Coefficients == {-2, 0, 2, 4}
Exponents == {4, 5, 10, 11}
FanPressures == {-8, 0, 8}
Heights == {0, 3}
Widths == {0, 1}
Fractions == {-1, 0, 1, 2, 3}
FilterEfficiencies == {-10, 50, 120}
PressureDrops == {-16, -9, -4, -1, 0, 1, 2, 4, 9, 16}
ElementDensities == {10, 12, 13}

ElementRequests ==
    [kind : {"PowerLawOrifice"}, a : Coefficients, n : Exponents]
    \cup [kind : {"Fan"}, a : Coefficients, b : FanPressures]
    \cup [kind : {"TwoWayFlow"}, a : Coefficients, b : Coefficients, c : Heights, d : Widths]
    \cup [kind : {"Damper"}, a : Coefficients, n : Exponents, c : Fractions]
    \cup [kind : {"Filter"}, a : Coefficients, n : Exponents, c : FilterEfficiencies]

NoFlowResult == [massFlow |-> 0, derivative |-> 0]

ElementInit ==
    /\ IdleAirflow
    /\ elements = [pos |-> "none"]
    /\ dens = [pos |-> "idle"]
    /\ controller = [pos |-> "idle"]
    /\ contam = [pos |-> "idle"]
    /\ occupants = [pos |-> "idle"]
    /\ integ = [pos |-> "idle"]
    /\ building = [pos |-> "idle"]
    /\ actuation = [pos |-> "idle"]

ElementUnchanged ==
    /\ AirflowUnchanged
    /\ UNCHANGED <<dens, controller, contam, occupants, integ, building, actuation>>

\* a constructor call: it yields the element, or throws and yields none
ElemConstruct ==
    /\ \E req \in ElementRequests :
           elements' = [pos |-> "constructed", request |-> req, elem |-> construct(req),
                        deltaP |-> 0, density |-> 0, out |-> NoFlowResult]
    /\ ElementUnchanged

\* Damper::setFraction on a damper
ElemSetFraction ==
    /\ elements.pos \in {"constructed", "calculated"}
    /\ elements.elem.kind = "Damper"
    /\ \E f \in Fractions :
           elements' = [elements EXCEPT !.pos = "constructed",
                                        !.elem = Damper_setFraction(elements.elem, f)]
    /\ ElementUnchanged

\* calculate on an orifice, a damper or a filter
ElemCalculate ==
    /\ elements.pos \in {"constructed", "calculated"}
    /\ elements.elem.kind \in {"PowerLawOrifice", "Damper", "Filter"}
    /\ \E dP \in PressureDrops, rho \in ElementDensities :
           elements' = [elements EXCEPT
                            !.pos = "calculated", !.deltaP = dP, !.density = rho,
                            !.out = FlowElement_calculate(elements.elem, dP, rho)]
    /\ ElementUnchanged

ElementNext == ElemConstruct \/ ElemSetFraction \/ ElemCalculate

ElementSpec == ElementInit /\ [][ElementNext]_vars

\* the constructions the specification requires to fail
mustFail(req) ==
    CASE req.kind = "PowerLawOrifice" -> req.a <= 0 \/ req.n < N_MIN \/ req.n > N_MAX
      [] req.kind = "Fan" -> req.a <= 0 \/ req.b <= 0
      [] req.kind = "TwoWayFlow" -> req.a <= 0 \/ req.b <= 0
      [] req.kind = "Damper" -> req.a <= 0 \/ req.n < N_MIN \/ req.n > N_MAX
      [] req.kind = "Filter" -> req.a <= 0 \/ req.n < N_MIN \/ req.n > N_MAX

----------------------------------------------------------------------------
(***************************************************************************)
(* Building a Network: addNode, addLink and JsonReader::readFromString     *)
(*                                                                         *)
(* Node and link indices are the 0-based vector indices of the code. A     *)
(* link is [nodeFrom, nodeTo, elem], elem = NoElement for a null           *)
(* flowElement_. idToIndex is -1 for an identifier that is not in the map. *)
(***************************************************************************)
MaxBuildNodes == 2
MaxBuildLinks == 2

NodeIds == {1, 2}

EmptyNetwork == [nodes |-> <<>>, idToIndex |-> [id \in NodeIds |-> -1], links |-> <<>>]

\* Network::addNode
Network_addNode(net, id) ==
    [net EXCEPT !.idToIndex[id] = Len(net.nodes), !.nodes = Append(net.nodes, id)]

\* Network::addLink
Network_addLink(net, link) == [net EXCEPT !.links = Append(net.links, link)]

\* Network::getNodeIndexById; -1 stands for the std::runtime_error
Network_getNodeIndexById(net, id) == IF id \in NodeIds THEN net.idToIndex[id] ELSE -1

\* the "flowElements" object of the documents: one named definition
elementDefs == [crack |-> [type |-> "PowerLawOrifice", a |-> 2, n |-> N_MAX]]

\* the "element" member of a link: absent, a reference or an inline definition
JsonElements ==
    { [form |-> "absent"],
      [form |-> "ref", ref |-> "crack"],
      [form |-> "ref", ref |-> "nowhere"],
      [form |-> "inline", def |-> [type |-> "Damper", a |-> 2, n |-> N_MIN, c |-> FRACTION_ONE]],
      [form |-> "inline", def |-> [type |-> "PowerLawOrifice", a |-> 0, n |-> N_MAX]],
      [form |-> "inline", def |-> [type |-> "Mystery"]] }

JsonLinks ==
    [from : {1}, to : {2}, element : JsonElements]
    \cup { [from |-> 2, to |-> 7, element |-> [form |-> "ref", ref |-> "crack"]] }

\* readFromString, lines 124-153: the element of a definition, NoElement for a
\* type the reader does not know, InvalidParameter when the constructor throws
elementOfDef(def) ==
    CASE def.type = "PowerLawOrifice" -> PowerLawOrifice_new(def.a, def.n)
      [] def.type = "Damper" -> Damper_new(def.a, def.n, def.c)
      [] OTHER -> NoElement

\* an exception leaving readFromString
Thrown == [kind |-> "throw"]

\* readFromString, lines 107-154: the element a link gets, Thrown for an exception
elementOfLink(jElem) ==
    IF jElem.form = "absent" THEN NoElement
    ELSE IF jElem.form = "ref" /\ jElem.ref \notin DOMAIN elementDefs THEN Thrown
    ELSE LET def == IF jElem.form = "ref" THEN elementDefs[jElem.ref] ELSE jElem.def
             e == elementOfDef(def)
         IN  IF e = InvalidParameter THEN Thrown ELSE e

RECURSIVE readLinks(_, _)
\* readFromString, lines 93-158: the links of the document, one after the other
readLinks(net, jLinks) ==
    IF jLinks = <<>> THEN [ok |-> TRUE, net |-> net]
    ELSE LET jLink == Head(jLinks)
             fromIdx == Network_getNodeIndexById(net, jLink.from)
             toIdx == Network_getNodeIndexById(net, jLink.to)
             e == elementOfLink(jLink.element)
         IN  IF fromIdx < 0 \/ toIdx < 0 \/ e = Thrown THEN [ok |-> FALSE, net |-> EmptyNetwork]
             ELSE readLinks(Network_addLink(net, [nodeFrom |-> fromIdx, nodeTo |-> toIdx,
                                                  elem |-> e]),
                            Tail(jLinks))

RECURSIVE readNodes(_, _)
\* readFromString, lines 56-90
readNodes(net, jNodes) ==
    IF jNodes = <<>> THEN net ELSE readNodes(Network_addNode(net, Head(jNodes)), Tail(jNodes))

\* JsonReader::readFromString
readFromString(doc) == readLinks(readNodes(EmptyNetwork, doc.nodes), doc.links)

SeqsUpTo(S, n) == UNION { [1..k -> S] : k \in 0..n }

JsonDocuments == [nodes : SeqsUpTo(NodeIds, MaxBuildNodes), links : SeqsUpTo(JsonLinks, MaxBuildLinks)]

\* the links handed to addLink: any indices, with or without an element
BuiltLinks ==
    [nodeFrom : {0}, nodeTo : {1, 5}, elem : {NoElement, PowerLawOrifice_new(2, N_MAX)}]
    \cup { [nodeFrom |-> -1, nodeTo |-> 0, elem |-> PowerLawOrifice_new(2, N_MAX)] }

BuildInit ==
    /\ IdleAirflow
    /\ building = [pos |-> "building", net |-> EmptyNetwork]
    /\ dens = [pos |-> "idle"]
    /\ controller = [pos |-> "idle"]
    /\ contam = [pos |-> "idle"]
    /\ occupants = [pos |-> "idle"]
    /\ integ = [pos |-> "idle"]
    /\ elements = [pos |-> "idle"]
    /\ actuation = [pos |-> "idle"]

BuildUnchanged ==
    /\ AirflowUnchanged
    /\ UNCHANGED <<dens, controller, contam, occupants, integ, elements, actuation>>

BuildAddNode ==
    /\ building.pos = "building"
    /\ Len(building.net.nodes) < MaxBuildNodes
    /\ \E id \in NodeIds : building' = [building EXCEPT !.net = Network_addNode(@, id)]
    /\ BuildUnchanged

BuildAddLink ==
    /\ building.pos = "building"
    /\ Len(building.net.links) < MaxBuildLinks
    /\ \E link \in BuiltLinks : building' = [building EXCEPT !.net = Network_addLink(@, link)]
    /\ BuildUnchanged

\* a call of readFromString in place of building by hand: it returns a network or throws
BuildReadJson ==
    /\ building.pos = "building"
    /\ building.net = EmptyNetwork
    /\ \E doc \in JsonDocuments :
           LET r == readFromString(doc)
           IN  building' = [pos |-> IF r.ok THEN "loaded" ELSE "failed", net |-> r.net]
    /\ BuildUnchanged

BuildNext == BuildAddNode \/ BuildAddLink \/ BuildReadJson

BuildSpec == BuildInit /\ [][BuildNext]_vars

validIndex(net, i) == 0 <= i /\ i < Len(net.nodes)

\* C22: in every network built through addNode / addLink or loaded by JsonReader,
\* every link owns a flow element and its from and to indices are indices of
\* nodes of the network. Violated: addLink stores what it is given, and the
\* reader adds a link without an element when the member is absent or of an
\* unknown type.
C22_LinksWellFormed ==
    building.pos \in {"building", "loaded"} =>
        \A l \in 1..Len(building.net.links) :
            /\ building.net.links[l].elem # NoElement
            /\ validIndex(building.net, building.net.links[l].nodeFrom)
            /\ validIndex(building.net, building.net.links[l].nodeTo)

\* the same for loaded networks only: violated by a missing element
C22_LoadedLinksWellFormed ==
    building.pos = "loaded" =>
        \A l \in 1..Len(building.net.links) :
            /\ building.net.links[l].elem # NoElement
            /\ validIndex(building.net, building.net.links[l].nodeFrom)
            /\ validIndex(building.net, building.net.links[l].nodeTo)

\* what the reader does ensure: the indices of a loaded link are valid
C22_LoadedIndicesValid ==
    building.pos = "loaded" =>
        \A l \in 1..Len(building.net.links) :
            /\ validIndex(building.net, building.net.links[l].nodeFrom)
            /\ validIndex(building.net, building.net.links[l].nodeTo)


----------------------------------------------------------------------------
(***************************************************************************)
(* The control block of a time step: TransientSimulation::applyActuators   *)
(*                                                                         *)
(* Controller outputs and actuator values are in the halves the damper     *)
(* fraction is carried in. A link index is the 0-based index of the code:  *)
(* link index i is links[i + 1].                                           *)
(***************************************************************************)
MaxControlSteps == 2

\* Actuator::Actuator: currentValue starts at 0
Actuator(id, type, linkIdx) == [id |-> id, type |-> type, linkIdx |-> linkIdx, currentValue |-> 0]

RECURSIVE firstOutput_last(_, _)
\* the output of the last controller driving the actuator
firstOutput_last(controllers, id) ==
    IF controllers = <<>> THEN 0
    ELSE IF controllers[Len(controllers)].actuatorId = id
         THEN controllers[Len(controllers)].output
         ELSE firstOutput_last(SubSeq(controllers, 1, Len(controllers) - 1), id)

RECURSIVE firstOutput(_, _)
\* applyActuators, lines 144-150: the output of the first controller driving the actuator
firstOutput(controllers, id) ==
    IF controllers = <<>> THEN 0
    ELSE IF Head(controllers).actuatorId = id THEN Head(controllers).output
         ELSE firstOutput(Tail(controllers), id)

\* applyActuators, lines 154-168: the links after one actuator has been applied
actuatedLinks(paths, act, ctrlOutput) ==
    IF act.linkIdx >= 0 /\ act.linkIdx < Len(paths)
    THEN LET elem == paths[act.linkIdx + 1]
         IN  IF elem = NoElement THEN paths
             ELSE IF act.type = "DamperFraction" /\ elem.kind = "Damper"
                  THEN [paths EXCEPT ![act.linkIdx + 1] = Damper_setFraction(elem, ctrlOutput)]
                  ELSE paths
    ELSE paths

RECURSIVE applyActuatorsFrom(_, _, _, _)
\* applyActuators: the loop over actuators_ from position a on
applyActuatorsFrom(controllers, actuators, paths, a) ==
    IF a > Len(actuators) THEN [actuators |-> actuators, links |-> paths]
    ELSE LET ctrlOutput == firstOutput(controllers, actuators[a].id)
         IN  applyActuatorsFrom(controllers,
                                [actuators EXCEPT ![a].currentValue = ctrlOutput],
                                actuatedLinks(paths, actuators[a], ctrlOutput),
                                a + 1)

\* TransientSimulation::applyActuators
applyActuators(controllers, actuators, paths) ==
    applyActuatorsFrom(controllers, actuators, paths, 1)

ControlOutputs == {-1, 1, 3}
ActuatorIds == {0, 1}

ControllerLists ==
    { <<>>,
      <<[actuatorId |-> 0, output |-> 1]>>,
      <<[actuatorId |-> 1, output |-> 2], [actuatorId |-> 1, output |-> 0]>>,
      <<[actuatorId |-> 5, output |-> 2], [actuatorId |-> 0, output |-> 2]>> }

ActuatorChoices ==
    { Actuator(id, "DamperFraction", l) : id \in ActuatorIds, l \in {-1, 0, 1, 4} }
    \cup { Actuator(0, "FanSpeed", 0), Actuator(1, "DamperFraction", 2),
           Actuator(1, "DamperFraction", 3) }

ActuatorLists ==
    {<<>>} \cup { <<a>> : a \in ActuatorChoices }
           \cup { <<a, b>> : a \in ActuatorChoices, b \in ActuatorChoices }

\* links 0..3: a half-open damper, an orifice, a link without element, a closed damper
ActuatedLinks ==
    << Damper_new(4, N_MIN, 1), PowerLawOrifice_new(2, N_MAX), NoElement,
       Damper_new(2, N_MAX, 0) >>

ActuatedNodes == << [type |-> "Ambient", pressure |-> 0], [type |-> "Normal", pressure |-> 3] >>

ActuationInit ==
    /\ IdleAirflow
    /\ \E cs \in ControllerLists, as \in ActuatorLists :
           actuation = [pos |-> "control", controllers |-> cs, actuators |-> as,
                        nodes |-> ActuatedNodes, links |-> ActuatedLinks, steps |-> 0,
                        before |-> [actuators |-> as, nodes |-> ActuatedNodes,
                                    links |-> ActuatedLinks]]
    /\ dens = [pos |-> "idle"]
    /\ controller = [pos |-> "idle"]
    /\ contam = [pos |-> "idle"]
    /\ occupants = [pos |-> "idle"]
    /\ integ = [pos |-> "idle"]
    /\ elements = [pos |-> "idle"]
    /\ building = [pos |-> "idle"]

ActuationUnchanged ==
    /\ AirflowUnchanged
    /\ UNCHANGED <<dens, controller, contam, occupants, integ, elements, building>>

\* run, line 48 with an empty controller list: the control block is skipped
ActSkip ==
    /\ actuation.pos \in {"control", "applied", "skipped"}
    /\ actuation.steps < MaxControlSteps
    /\ actuation.controllers = <<>>
    /\ actuation' = [actuation EXCEPT
                        !.pos = "skipped", !.steps = @ + 1,
                        !.before = [actuators |-> actuation.actuators,
                                    nodes |-> actuation.nodes, links |-> actuation.links]]
    /\ ActuationUnchanged

\* run, lines 49-50: the controllers are updated and hold new outputs
ActUpdateControllers ==
    /\ actuation.pos \in {"control", "applied"}
    /\ actuation.steps < MaxControlSteps
    /\ actuation.controllers # <<>>
    /\ \E out \in [1..Len(actuation.controllers) -> ControlOutputs] :
           actuation' = [actuation EXCEPT
                            !.pos = "actuators",
                            !.controllers = [c \in 1..Len(@) |-> [@[c] EXCEPT !.output = out[c]]]]
    /\ ActuationUnchanged

\* run, line 51: applyActuators
ActApply ==
    /\ actuation.pos = "actuators"
    /\ LET r == applyActuators(actuation.controllers, actuation.actuators, actuation.links)
       IN  actuation' = [actuation EXCEPT
                            !.pos = "applied", !.steps = @ + 1,
                            !.actuators = r.actuators, !.links = r.links,
                            !.before = [actuators |-> actuation.actuators,
                                        nodes |-> actuation.nodes, links |-> actuation.links]]
    /\ ActuationUnchanged

ActuationNext == ActSkip \/ ActUpdateControllers \/ ActApply

ActuationSpec == ActuationInit /\ [][ActuationNext]_vars

\* the controllers driving an actuator, by position in the controller list
driversOf(id) ==
    { c \in 1..Len(actuation.controllers) : actuation.controllers[c].actuatorId = id }

\* the value the claim gives an actuator: the first driver's output, 0 without one
claimedValue(id) ==
    IF driversOf(id) = {} THEN 0
    ELSE actuation.controllers[CHOOSE c \in driversOf(id) :
                                   \A k \in driversOf(id) : c <= k].output

\* the DamperFraction actuators whose link index is link l, a link holding a Damper
damperActuatorsOf(l) ==
    { a \in 1..Len(actuation.actuators) :
          /\ actuation.actuators[a].type = "DamperFraction"
          /\ actuation.actuators[a].linkIdx = l - 1
          /\ actuation.before.links[l].kind = "Damper" }

\* C27: applyActuators sets every actuator's currentValue to the output of the
\* first controller whose actuatorId is the actuator's id, 0 when there is none;
\* it changes the element of a link only for DamperFraction actuators whose link
\* index is in range and whose link holds a Damper, whose fraction becomes the
\* value clamped to [0, 1] (that of the last such actuator in the list); every
\* other link's element, every node, and the damper's Cmax and exponent are
\* unchanged; with an empty controller list the step applies nothing.
C27_ActuatorsApplied ==
    /\ actuation.pos = "applied" =>
          /\ \A a \in 1..Len(actuation.actuators) :
                 actuation.actuators[a] =
                     [actuation.before.actuators[a] EXCEPT
                          !.currentValue = claimedValue(actuation.actuators[a].id)]
          /\ Len(actuation.actuators) = Len(actuation.before.actuators)
          /\ actuation.nodes = actuation.before.nodes
          /\ Len(actuation.links) = Len(actuation.before.links)
          /\ \A l \in 1..Len(actuation.links) :
                 IF damperActuatorsOf(l) = {}
                 THEN actuation.links[l] = actuation.before.links[l]
                 ELSE LET last == CHOOSE a \in damperActuatorsOf(l) :
                                      \A k \in damperActuatorsOf(l) : k <= a
                      IN  /\ actuation.links[l].kind = "Damper"
                          /\ actuation.links[l].Cmax = actuation.before.links[l].Cmax
                          /\ actuation.links[l].n = actuation.before.links[l].n
                          /\ actuation.links[l].fraction =
                                 clamp(actuation.actuators[last].currentValue, 0, FRACTION_ONE)
    /\ actuation.pos = "skipped" =>
          /\ actuation.actuators = actuation.before.actuators
          /\ actuation.links = actuation.before.links
          /\ actuation.nodes = actuation.before.nodes

\* a damper was moved by the first of two controllers driving its actuator, the
\* output being clamped, while another actuator had no controller at all
C27_Witness ==
    /\ actuation.pos = "applied"
    /\ \E a \in 1..Len(actuation.actuators) :
           /\ Cardinality(driversOf(actuation.actuators[a].id)) = 2
           /\ actuation.controllers[1].output # actuation.controllers[2].output
           /\ actuation.actuators[a].currentValue > FRACTION_ONE
           /\ actuation.actuators[a].linkIdx = 0
           /\ actuation.links[1].fraction = FRACTION_ONE
           /\ actuation.before.links[1].fraction # FRACTION_ONE
    /\ \E a \in 1..Len(actuation.actuators) : driversOf(actuation.actuators[a].id) = {}


----------------------------------------------------------------------------
(* Damper against PowerLawOrifice, checked under ElementSpec *)

\* the result a PowerLawOrifice with the damper's Cmax and exponent returns for
\* the pressure drop and density of the last calculate call
orificeResult ==
    PowerLawOrifice_calculate(PowerLawOrifice_new(elements.elem.Cmax, elements.elem.n),
                              elements.deltaP, elements.density)

fullyOpenDamperCalculated ==
    /\ elements.pos = "calculated"
    /\ elements.elem.kind = "Damper"
    /\ elements.elem.fraction = FRACTION_ONE

\* C29: a Damper with fraction 1 returns the mass flow and the derivative of a
\* PowerLawOrifice with the same coefficient and exponent, for every pressure
\* drop, those below DP_MIN included, and every density.
\* Violated below DP_MIN at a density other than 1.2 kg/m^3.
C29_DamperMatchesOrifice ==
    fullyOpenDamperCalculated => elements.out = orificeResult

\* where the two do agree: from DP_MIN on, and below it at the reference density
C29_MatchesOutsideLinearRegime ==
    (fullyOpenDamperCalculated
        /\ (Abs(elements.deltaP) >= ELEM_DP_MIN \/ elements.density = RHO_REF))
        => elements.out = orificeResult

\* below DP_MIN the damper's result is the orifice's at the reference density
C29_LinearRegimeUsesReferenceDensity ==
    (fullyOpenDamperCalculated /\ Abs(elements.deltaP) < ELEM_DP_MIN)
        => elements.out =
               PowerLawOrifice_calculate(
                   PowerLawOrifice_new(elements.elem.Cmax, elements.elem.n),
                   elements.deltaP, RHO_REF)


----------------------------------------------------------------------------
(* Sources the contaminant solver does not apply, checked under ContaminantSpec *)

\* a source the claim has applied: its species is one of the solver's and its zone id
\* is that of a zone that is not Ambient
appliedSource(zones, species, src) ==
    /\ \E k \in 1..Len(species) : species[k].id = src.speciesId
    /\ src.zoneId \in 1..Len(zones)
    /\ ~isKnownPressure(zones[src.zoneId])

appliedSources(zones, species, sources) ==
    SelectSeq(sources, LAMBDA src : appliedSource(zones, species, src))

\* the concentrations the last step yields when the sources that are not applied are absent
withoutSkippedSources ==
    ContaminantSolver_step(contam.zones, contam.links, contam.species,
                           appliedSources(contam.zones, contam.species, contam.sources),
                           contam.K, contam.before, contam.dt)

\* C23: a source is applied only if its species is one of the solver's and its zone
\* id resolves to a zone that is not Ambient; a source with an unknown zone id or in
\* an Ambient zone is skipped, and the step completes with the concentrations it
\* would have without that source.
\* Violated: the lookup of an unknown zone id throws and the step does not complete.
C23_SkippedSourcesAbsent ==
    contam.op = "step" => (contam.pos = "ready" /\ contam.C = withoutSkippedSources)

\* what holds: a step that returns has ignored the sources of Ambient zones and of
\* unknown species
C23_ReturnedStepIgnoresSkipped ==
    (contam.op = "step" /\ contam.pos = "ready") => contam.C = withoutSkippedSources

\* and a step throws exactly when a source of a known species names an unknown zone
C23_UnknownZoneThrows ==
    contam.op = "step" =>
        ((contam.pos = "thrown") <=>
            \E s \in 1..Len(contam.sources) :
                /\ \E k \in 1..Len(contam.species) :
                       contam.species[k].id = contam.sources[s].speciesId
                /\ contam.sources[s].zoneId \notin 1..Len(contam.zones))


----------------------------------------------------------------------------
(* The generation term of the two solve paths, checked under ContaminantSpec *)
(* (scheduleMult = 1; the inputs hold no ExponentialDecay source)            *)

\* the generation the last step added to b for zone z and species k, on the path it took
generationAdded(z, k) ==
    SumOver([s \in 1..Len(contam.sources) |->
                IF contam.K # <<>> THEN generation_coupled(contam.sources[s])
                ELSE generation_single(contam.zones, contam.before, contam.sources[s], z, k)],
            sourcesOf(contam.zones, contam.species, contam.sources, z, k))

\* the generation of a source by its kind, as the claim states it
generationByKind(src, z, k) ==
    CASE src.type = "PressureDriven" -> src.pressureCoeff * Abs(contam.zones[z].pressure)
      [] src.type = "CutoffConcentration" ->
             IF contam.before[z][k] < src.cutoffConc THEN src.generationRate ELSE 0
      [] OTHER -> src.generationRate

generationClaimed(z, k) ==
    SumOver([s \in 1..Len(contam.sources) |-> generationByKind(contam.sources[s], z, k)],
            sourcesOf(contam.zones, contam.species, contam.sources, z, k))

stepReturned == contam.op = "step" /\ contam.pos = "ready"

\* C28: the generation term added to a zone's equation depends on the kind of the
\* source in the same way on the single-species path and on the coupled path:
\* Constant adds G, PressureDriven adds pressureCoeff * |P_zone|, CutoffConcentration
\* adds G only while the concentration before the step is below the cutoff.
\* Violated on the coupled path, which adds generationRate for both of these kinds.
C28_GenerationByKind ==
    stepReturned =>
        \A z \in 1..Len(contam.zones), k \in 1..Len(contam.species) :
            ~isKnownPressure(contam.zones[z]) => generationAdded(z, k) = generationClaimed(z, k)

\* what holds: the single-species path follows the kinds
C28_SingleSpeciesByKind ==
    (stepReturned /\ contam.K = <<>>) =>
        \A z \in 1..Len(contam.zones), k \in 1..Len(contam.species) :
            ~isKnownPressure(contam.zones[z]) => generationAdded(z, k) = generationClaimed(z, k)


----------------------------------------------------------------------------
(* Failure of the linear solve inside Solver::solve, checked under SolverSpec *)

\* C24: when the factorization of the Jacobian or the linear solve fails in an
\* iteration, solve stops iterating and returns converged = false, and every node
\* pressure is the one it had at the start of that iteration.
C24_LuFailureStops ==
    (lastIter.ran /\ lastIter.luFailed) =>
        /\ spc \in {"collect", "done"}
        /\ ~result.converged
        /\ ~lastIter.updated
        /\ result.iterations = iter + 1
        /\ Pressures(nodes) = iterPressures
        /\ spc = "done" => result.pressures = iterPressures

\* a solve returned after a failed factorization, with a residual left and a room
\* pressure other than 0
C24_Witness ==
    /\ spc = "done"
    /\ lastIter.ran
    /\ lastIter.luFailed
    /\ lastIter.residual >= CONVERGENCE_TOL
    /\ \E i \in 1..Len(nodes) : ~isKnownPressure(nodes[i]) /\ result.pressures[i] # 0


----------------------------------------------------------------------------
(* The trust region of Solver::solve, checked under SolverSpec *)

\* the Newton step dP the next pass of the loop computes from the current network
newtonStep ==
    luSolve(assembleJ(updateAllDensities(nodes),
                      computeFlows(updateAllDensities(nodes), links),
                      UnknownMap(nodes)),
            assembleR(updateAllDensities(nodes),
                      computeFlows(updateAllDensities(nodes), links),
                      UnknownMap(nodes)))

\* a pass of the loop under TrustRegion that got as far as the update
trustRegionUpdate ==
    /\ spc = "iter"
    /\ iter < maxIterations
    /\ method = "TrustRegion"
    /\ lastIter'.ran
    /\ ~lastIter'.converged
    /\ ~lastIter'.luFailed

----------------------------------------------------------------------------
(* What Solver::solve leaves in the network, checked under SolverSpec *)

\* every density is the one of its node's pressure, and every link carries the mass
\* flow and derivative its element gives for the pressures and densities of the nodes
networkEvaluatedAtPressures ==
    /\ nodes = updateAllDensities(nodes)
    /\ links = computeFlows(nodes, links)

\* a solve that went through the loop at least once has returned
solveReturned == spc = "done" /\ lastIter.ran

\* C30: when solve returns, the reported mass flow and the stored derivative of
\* every link and the density of every node are the values evaluated at the
\* reported node pressures, also when the iteration limit was reached without
\* convergence.
\* Violated: a pass that does not converge updates the pressures after computing the
\* flows, and when it was the last pass nothing is evaluated again.
C30_ResultEvaluatedAtPressures ==
    solveReturned =>
        /\ result.pressures = Pressures(nodes)
        /\ result.massFlows = MassFlows(links)
        /\ networkEvaluatedAtPressures

\* what holds: the network is evaluated at the reported pressures when the last pass
\* ended by convergence or by a failed factorization, and the reported vectors are
\* those of the network in every case
C30_EvaluatedUnlessUpdated ==
    solveReturned =>
        /\ result.pressures = Pressures(nodes)
        /\ result.massFlows = MassFlows(links)
        /\ ~lastIter.updated => networkEvaluatedAtPressures

\* and after a last pass that updated the pressures, densities and flows are those of
\* the pressures the pass started from
C30_StaleAfterUpdate ==
    (solveReturned /\ lastIter.updated) =>
        LET before == [i \in 1..Len(nodes) |-> [nodes[i] EXCEPT !.pressure = iterPressures[i]]]
        IN  /\ before = updateAllDensities(before)
            /\ links = computeFlows(before, links)


----------------------------------------------------------------------------
(* Step-size control inside AdaptiveIntegrator::step, checked under IntegratorSpec *)

subStepRejected == integ.tried.ran /\ integ.rejectedSteps = integ.tried.rejectedSteps + 1
subStepAccepted == integ.tried.ran /\ integ.totalSteps = integ.tried.totalSteps + 1

\* the tried size is at dtMin within 1 %: not above 1.01 dtMin (a sub-step clamped to the
\* remainder can be below dtMin)
triedAtDtMin == 100 * integ.tried.dt <= 101 * integ.config.dtMin

\* C26: inside step a sub-step whose error estimate exceeds 1 is rejected unless its
\* size is already at dtMin (within 1 %), in which case it is accepted; a rejection
\* leaves y and the current time unchanged, adds 1 to rejectedSteps and strictly
\* decreases the sub-step size without going below dtMin; an acceptance advances
\* the time by the sub-step size and adds 1 to totalSteps; the suggested next size
\* is always in [dtMin, dtMax] and is the accepted size times a factor in [0.2, 5].
C26_StepControl ==
    /\ integ.suggestedDt >= integ.config.dtMin
    /\ integ.suggestedDt <= integ.config.dtMax
    /\ integ.tried.ran =>
          /\ subStepRejected <=> (integ.tried.error.err100 > 100 /\ ~triedAtDtMin)
          /\ subStepAccepted <=> ~subStepRejected
          /\ subStepRejected =>
                /\ integ.yVersion = integ.tried.yVersion
                /\ integ.tCurrent = integ.tried.tCurrent
                /\ integ.totalSteps = integ.tried.totalSteps
                /\ integ.dt < integ.tried.dt
                /\ integ.dt >= integ.config.dtMin
          /\ subStepAccepted =>
                /\ integ.yVersion = integ.tried.yVersion + 1
                /\ integ.tCurrent = integ.tried.tCurrent + integ.tried.dt
                /\ integ.rejectedSteps = integ.tried.rejectedSteps
                /\ 5 * integ.suggestedDt >= integ.tried.dt
                /\ integ.suggestedDt <= 5 * integ.tried.dt

\* a sub-step below dtMin was accepted with an error above 1 after an earlier rejection,
\* and the suggestion was lifted to dtMin
C26_Witness ==
    /\ integ.tried.ran
    /\ subStepAccepted
    /\ integ.tried.error.err100 > 100
    /\ integ.tried.dt < integ.config.dtMin
    /\ integ.rejectedSteps > 0
    /\ integ.suggestedDt = integ.config.dtMin

====
